---- MODULE Spec2Model ----
(***************************************************************************)
(* Model of the Qwen gateway (src/main.ts, src/v1.ts, src/v1-file.ts,      *)
(* src/unnamed/part_000).                                                  *)
(*                                                                         *)
(* Text is a sequence of tokens.  The six characters "data: " are one      *)
(* token, the newline is one token, a JSON payload that carries delta      *)
(* content is the sequence of its content characters, and the other        *)
(* payloads ("[DONE]", a role-only object, a truncated object, a comment)  *)
(* are one token each.  A frame in the sink is the text that was written,  *)
(* without its trailing blank line.                                        *)
(*                                                                         *)
(* The asynchronous tasks (handleStream, the timeout callback, the         *)
(* rejection handler) are cut at their awaits: one action is one call      *)
(* that can suspend or reject (read, write, close) with the synchronous    *)
(* code around it.                                                         *)
(***************************************************************************)
EXTENDS Integers, Sequences, FiniteSets, TLC

VARIABLES
  request,          \* the client request: [route, auth, model, stream]
  reqPc,            \* handleRequest: "start", "fetch", "responded"
  response,         \* what handleRequest returned: "none", "401", "400", "405", "500", "json", "stream"
  text,             \* the whole body the upstream will send (never changes)
  upstream,         \* the part of text not yet delivered by reader.read()
  hsPc,             \* handleStream and its rejection handler: the next call
  buffer,           \* handleStream: let buffer
  lines,            \* handleStream: the data lines of the running for loop not yet processed
  previousContent,  \* handleStream: previousContent
  sink,             \* the frames accepted by the writer, in order
  sinkClosed,       \* writer.close() has been called
  timer,            \* the setTimeout handle and its callback: "unset", "armed", "cleared", "sentinel", "close", "done"
  doneWrites,       \* number of terminal sentinel writes the sink accepted
  closes,           \* number of close calls the sink accepted
  firedSilent,      \* the timer expired before the upstream had delivered anything
  hsError,          \* the message of the error caught by handleStream
  upStatus,         \* the status of the upstream's answer to a non-streaming request
  respStatus,       \* the status of the Response handleRequest returned
  rRetries,         \* fetchWithRetry: retries
  rI,               \* fetchWithRetry: i
  rPc,              \* fetchWithRetry: "idle", "attempt", "sleep", "returned", "thrown"
  rOutcomes,        \* fetchWithRetry: the outcome of every attempt made, in order
  rSleeps,          \* fetchWithRetry: the argument of every sleep performed, in order
  rLastError,       \* fetchWithRetry: lastError
  rError,           \* fetchWithRetry: the object serialized into the thrown Error
  nPrev,            \* normalizer input: previous cumulative content
  nCur,             \* normalizer input: current cumulative content
  nPc,              \* normalizer: "idle", "input", "done"
  nMain,            \* newContent of processLine (main.ts)
  nV1,              \* result of getIncrementalContent (v1.ts)
  session,          \* the state of each of two concurrent sessions of handleStream
  decoderPending,   \* the bytes of an unfinished character kept by streamDecoder
  gServer,          \* the file whose handleRequest serves the request
  gRequest,         \* the request: [method, path, auth, model, image, fresh]
  gPc,              \* handleRequest: start, upload, modelsFetch, chatFetch, forwardFetch, responded
  gCalls,           \* the calls made to the upstream for the request, in order
  gStatus,          \* the status of the Response returned
  clock,            \* Date.now()
  ticks,            \* how many times the clock has advanced
  cachedModels,     \* let cachedModels
  cachedModelsTimestamp,\* let cachedModelsTimestamp
  slot,             \* the GET /api/models requests being handled
  v1Upstream,       \* v1.ts streamResponse: the bytes the upstream has not delivered yet
  v1Buffer,         \* v1.ts streamResponse: let buffer
  v1Previous,       \* v1.ts streamResponse: let previousContent
  v1Out,            \* v1.ts streamResponse: the frames enqueued, in order
  v1Pc,             \* v1.ts streamResponse: idle, read, closed, errored
  v1Log,            \* v1.ts streamResponse: for each content line processed, its content and previousContent after it
  fUpstream,        \* v1-file.ts session: the part of the body not yet delivered by reader.read()
  fPc,              \* v1-file.ts handleStream: the next call
  fBuffer,          \* v1-file.ts handleStream: let buffer
  fLines,           \* v1-file.ts handleStream: the data lines of the running for loop not yet processed
  fPrevious,        \* v1-file.ts: context.state.previousContent
  isCompleted,      \* v1-file.ts: context.state.isCompleted
  isStreamActive,   \* v1-file.ts: context.state.isStreamActive
  fTimer,           \* v1-file.ts: the setTimeout handle and its callback
  fSink,            \* v1-file.ts: the frames accepted by the writer, in order
  fClosed,          \* v1-file.ts: writer.close() has been called
  fDoneWrites,      \* v1-file.ts: number of sentinel writes the sink accepted
  fCloses,          \* v1-file.ts: number of close calls the sink accepted
  pServer,          \* the module whose code builds the frame
  pData,            \* the payload parsed from an upstream data line
  pPrevious,        \* previousContent when the line arrives
  pOut,             \* the payloads serialized into frames for the line
  pPc,              \* input or done
  uPc,              \* part_000: position of handleStream and of its rejection handler
  uChunks,          \* part_000: chunks the upstream still sends
  uLeftover,        \* part_000: the upstream ends with an unterminated data line
  uTimer,           \* part_000: armed, cleared or fired
  uSink,            \* part_000: kinds of the frames written
  uClosed,          \* part_000: close was called on the writer
  uUnhandled,       \* part_000: promises rejected with no handler attached
  eRetries,         \* the retries argument given to both fetchers
  eScript,          \* what the upstream does at the first, second, ... attempt
  eMain,            \* fetchWithRetry of main.ts: position, loop index, status returned
  ePart             \* fetchWithRetry of part_000: position, loop index, status returned

streamVars == <<request, reqPc, response, text, upstream, hsPc, buffer, lines,
                previousContent, sink, sinkClosed, timer, doneWrites, closes,
                firedSilent, hsError, upStatus, respStatus>>
retryVars == <<rRetries, rI, rPc, rOutcomes, rSleeps, rLastError, rError>>
normVars == <<nPrev, nCur, nPc, nMain, nV1>>
sessVars == <<session, decoderPending>>

gateVars == <<gServer, gRequest, gPc, gCalls, gStatus>>

cacheVars == <<clock, ticks, cachedModels, cachedModelsTimestamp, slot>>

v1Vars == <<v1Upstream, v1Buffer, v1Previous, v1Out, v1Pc, v1Log>>

fileVars == <<fUpstream, fPc, fBuffer, fLines, fPrevious, isCompleted, isStreamActive, fTimer, fSink, fClosed, fDoneWrites, fCloses>>

payloadVars == <<pServer, pData, pPrevious, pOut, pPc>>

partVars == <<uPc, uChunks, uLeftover, uTimer, uSink, uClosed, uUnhandled>>

equivVars == <<eRetries, eScript, eMain, ePart>>

vars == <<streamVars, retryVars, normVars, sessVars, gateVars, cacheVars, v1Vars, fileVars, payloadVars, partVars, equivVars>>

\* what the actions of one part leave alone
exceptStream == <<retryVars, normVars, sessVars, gateVars, cacheVars, v1Vars, fileVars, payloadVars, partVars, equivVars>>
exceptRetry == <<streamVars, normVars, sessVars, gateVars, cacheVars, v1Vars, fileVars, payloadVars, partVars, equivVars>>
exceptNorm == <<streamVars, retryVars, sessVars, gateVars, cacheVars, v1Vars, fileVars, payloadVars, partVars, equivVars>>
exceptSess == <<streamVars, retryVars, normVars, gateVars, cacheVars, v1Vars, fileVars, payloadVars, partVars, equivVars>>
exceptGate == <<streamVars, retryVars, normVars, sessVars, cacheVars, v1Vars, fileVars, payloadVars, partVars, equivVars>>
exceptCache == <<streamVars, retryVars, normVars, sessVars, gateVars, v1Vars, fileVars, payloadVars, partVars, equivVars>>
exceptV1 == <<streamVars, retryVars, normVars, sessVars, gateVars, cacheVars, fileVars, payloadVars, partVars, equivVars>>
exceptFile == <<streamVars, retryVars, normVars, sessVars, gateVars, cacheVars, v1Vars, payloadVars, partVars, equivVars>>
exceptPayload == <<streamVars, retryVars, normVars, sessVars, gateVars, cacheVars, v1Vars, fileVars, partVars, equivVars>>
exceptPart == <<streamVars, retryVars, normVars, sessVars, gateVars, cacheVars, v1Vars, fileVars, payloadVars, equivVars>>
exceptEquiv == <<streamVars, retryVars, normVars, sessVars, gateVars, cacheVars, v1Vars, fileVars, payloadVars, partVars>>

----------------------------------------------------------------------------
(* Bounds *)

MaxLen == 3          \* longest string given to the normalizers
MaxRetriesArg == 3   \* largest retries argument given to fetchWithRetry

----------------------------------------------------------------------------
(* Program constants *)

MAX_RETRIES == 3
RETRY_DELAY == 1000
BODY_LIMIT == 1000

----------------------------------------------------------------------------
(* Tokens and strings *)

NL == "\n"
DataPrefix == "data: "
DonePayload == "[DONE]"
RolePayload == "{role}"
BrokenPayload == "{"
Comment == ":"
ContentChars == {"a", "b", "c", "<U+00E9>", "<U+FFFD>"}

\* s.startsWith(p)
StartsWith(s, p) ==
  /\ Len(p) <= Len(s)
  /\ \A k \in 1..Len(p) : s[k] = p[k]

\* s.slice(n)
Slice(s, n) == SubSeq(s, n + 1, Len(s))

\* s.split("\n")
RECURSIVE Split(_)
Split(s) ==
  IF \A k \in 1..Len(s) : s[k] # NL
  THEN <<s>>
  ELSE LET k == CHOOSE k \in 1..Len(s) :
                  s[k] = NL /\ \A j \in 1..(k - 1) : s[j] # NL
       IN <<SubSeq(s, 1, k - 1)>> \o Split(SubSeq(s, k + 1, Len(s)))

\* lines.pop() || "" leaves the last segment in the buffer
LastSegment(segs) == segs[Len(segs)]
AllButLast(segs) == SubSeq(segs, 1, Len(segs) - 1)

\* line.trim().startsWith("data: ")
IsDataLine(line) == Len(line) >= 1 /\ line[1] = DataPrefix

\* the data lines of a chunk taken from the last to the first
DataLinesReversed(segs) ==
  LET q == SelectSeq(segs, IsDataLine)
  IN [k \in 1..Len(q) |-> q[Len(q) + 1 - k]]

\* the lines of the for loop that pass the test, in the order of the split
DataLines(segs) == SelectSeq(segs, IsDataLine)

----------------------------------------------------------------------------
(* Frames *)

DoneFrame == <<DataPrefix, DonePayload>>
TimeoutFrame == <<DataPrefix, "{timeout}">>

\* characters of an error message: a letter, a double quote
Quote == "\""
Messages == { <<"m">>, <<"m", Quote, "m">> }

\* the message of the TypeError of a write or close on a closed writer
WriterClosedMessage == <<"w">>

\* `data: {"error":true,"message":"${error.message}"}`: the message is pasted as it is
ErrorOpen == "{\"error\":true,\"message\":\""
ErrorClose == "\"}"
ErrorFrameOf(message) == <<DataPrefix, ErrorOpen>> \o message \o <<ErrorClose>>

IsErrorFrame(frame) == Len(frame) >= 2 /\ frame[2] = ErrorOpen

\* JSON.parse(line.slice(6)) succeeds and the object has choices[0].delta.content
HasContent(line) ==
  /\ Len(line) >= 2
  /\ \A k \in 2..Len(line) : line[k] \in ContentChars

\* JSON.parse(line.slice(6)) succeeds and the object has no delta content
IsPlainObject(line) == line = <<DataPrefix, RolePayload>>

\* the increment without the removal of the previous content
NewContentWhole(previous, current) == current

\* the increment computed inside processLine
NewContent(previous, current) ==
  IF StartsWith(current, previous) /\ Len(previous) > 0
  THEN Slice(current, Len(previous))
  ELSE current

\* processLine that drops a line whose payload is not JSON
ProcessLineFramesDropping(line, previous) ==
  IF HasContent(line)
  THEN LET newContent == NewContent(previous, Slice(line, 1))
       IN IF newContent # <<>> THEN <<<<DataPrefix>> \o newContent>> ELSE <<>>
  ELSE IF IsPlainObject(line)
  THEN <<line>>
  ELSE <<>>

\* the frames processLine writes for one line
ProcessLineFrames(line, previous) ==
  IF HasContent(line)
  THEN LET newContent == NewContent(previous, Slice(line, 1))
       IN IF newContent # <<>> THEN <<<<DataPrefix>> \o newContent>> ELSE <<>>
  ELSE IF IsPlainObject(line)
  THEN <<line>>
  ELSE <<line>>

\* the value processLine returns for one line
ProcessLineResult(line, previous) ==
  IF HasContent(line) THEN Slice(line, 1) ELSE previous

\* if (result) previousContent = result
KeepResult(result, previous) == IF result # <<>> THEN result ELSE previous

----------------------------------------------------------------------------
(* Inputs of the streaming session *)

\* HTTP statuses of upstream responses
Statuses == {200, 204, 302, 404, 500, 503}

Requests ==
  { [route |-> "chat", auth |-> TRUE, model |-> TRUE, stream |-> TRUE],
    [route |-> "chat", auth |-> TRUE, model |-> TRUE, stream |-> FALSE],
    [route |-> "chat", auth |-> TRUE, model |-> FALSE, stream |-> TRUE],
    [route |-> "chat", auth |-> FALSE, model |-> TRUE, stream |-> TRUE],
    [route |-> "other", auth |-> TRUE, model |-> TRUE, stream |-> TRUE] }

ValidStreamRequest(r) == r.route = "chat" /\ r.auth /\ r.model /\ r.stream
ValidPlainRequest(r) == r.route = "chat" /\ r.auth /\ r.model /\ ~r.stream

\* one upstream event: a data line carrying the cumulative content, and a blank line
ContentEvent(content) == <<DataPrefix>> \o content \o <<NL, NL>>

RECURSIVE ContentEvents(_)
ContentEvents(contents) ==
  IF contents = <<>> THEN <<>>
  ELSE ContentEvent(Head(contents)) \o ContentEvents(Tail(contents))

\* the body of an upstream that sends the cumulative contents, "data: [DONE]" and ends
CumulativeBody(contents) == ContentEvents(contents) \o DoneFrame \o <<NL, NL>>

\* lists of contents, each one extending the one before
CumulativeLists ==
  { << <<"a">>, <<"a", "b">>, <<"a", "b", "c">> >>,
    << <<"b">>, <<"b", "c">> >>,
    << <<"a">>, <<"a">>, <<"a", "c">> >> }

OtherBodies ==
  { <<>>,
    \* a truncated payload between two valid lines, the last line unterminated
    <<DataPrefix, "a", NL, DataPrefix, BrokenPayload, "a", NL, DataPrefix, "a", "b">>,
    \* a role line, a comment, a content that shrinks, an unterminated broken line
    <<DataPrefix, RolePayload, NL, Comment, NL, DataPrefix, "a", "b", NL,
      DataPrefix, "b", NL, DataPrefix, BrokenPayload>>,
    \* "data: [DONE]" between two content lines
    <<DataPrefix, "a", NL, DataPrefix, DonePayload, NL, DataPrefix, "a", "b", NL>> }

Bodies == { CumulativeBody(cs) : cs \in CumulativeLists } \cup OtherBodies

----------------------------------------------------------------------------
(* The writer *)

\* writer.write(frame) is accepted unless close() has been called
Accepts == ~sinkClosed

\* the status of new Response(body, { headers }) when init names no status
DefaultStatus == 200

\* a clearTimeout that leaves the timer armed
StillArmed(t) == t

\* clearTimeout(timeout)
Cleared(t) == IF t = "armed" THEN "cleared" ELSE t

StreamIdle ==
  /\ request = [route |-> "none", auth |-> FALSE, model |-> FALSE, stream |-> FALSE]
  /\ reqPc = "idle"
  /\ response = "none"
  /\ text = <<>>
  /\ upstream = <<>>
  /\ hsPc = "idle"
  /\ buffer = <<>>
  /\ lines = <<>>
  /\ previousContent = <<>>
  /\ sink = <<>>
  /\ sinkClosed = FALSE
  /\ timer = "unset"
  /\ doneWrites = 0
  /\ closes = 0
  /\ firedSilent = FALSE
  /\ hsError = <<>>
  /\ upStatus = 0
  /\ respStatus = 0

StreamInit ==
  /\ request \in Requests
  /\ reqPc = "start"
  /\ response = "none"
  /\ text \in (IF ValidStreamRequest(request) THEN Bodies ELSE {<<>>})
  /\ upstream = text
  /\ hsPc = "idle"
  /\ buffer = <<>>
  /\ lines = <<>>
  /\ previousContent = <<>>
  /\ sink = <<>>
  /\ sinkClosed = FALSE
  /\ timer = "unset"
  /\ doneWrites = 0
  /\ closes = 0
  /\ firedSilent = FALSE
  /\ hsError = <<>>
  /\ upStatus \in (IF ValidPlainRequest(request) THEN Statuses ELSE {200})
  /\ respStatus = 0

----------------------------------------------------------------------------
(* handleRequest, POST /api/chat/completions *)

\* routing, the bearer check, the model check, up to the call of fetch
HandleRequestStart ==
  /\ reqPc = "start"
  /\ IF request.route # "chat"
     THEN reqPc' = "responded" /\ response' = "405" /\ respStatus' = 405
     ELSE IF ~request.auth
     THEN reqPc' = "responded" /\ response' = "401" /\ respStatus' = 401
     ELSE IF ~request.model
     THEN reqPc' = "responded" /\ response' = "400" /\ respStatus' = 400
     ELSE reqPc' = "fetch" /\ response' = response /\ respStatus' = respStatus
  /\ UNCHANGED <<request, text, upstream, hsPc, buffer, lines, previousContent,
                 sink, sinkClosed, timer, doneWrites, closes, firedSilent>>
  /\ UNCHANGED <<hsError, upStatus>>
  /\ UNCHANGED exceptStream

\* fetch resolves: the stream is set up (timer armed, handleStream started) or the body is returned
FetchResolves ==
  /\ reqPc = "fetch"
  /\ reqPc' = "responded"
  /\ respStatus' = DefaultStatus
  /\ IF request.stream
     THEN /\ timer' = "armed"
          /\ hsPc' = "read"
          /\ response' = "stream"
     ELSE /\ response' = "json"
          /\ UNCHANGED <<timer, hsPc>>
  /\ UNCHANGED <<request, text, upstream, buffer, lines, previousContent,
                 sink, sinkClosed, doneWrites, closes, firedSilent>>
  /\ UNCHANGED <<hsError, upStatus>>
  /\ UNCHANGED exceptStream

\* fetch rejects: the outer catch answers 500
FetchRejects ==
  /\ reqPc = "fetch"
  /\ reqPc' = "responded"
  /\ response' = "500"
  /\ respStatus' = 500
  /\ UNCHANGED <<request, text, upstream, hsPc, buffer, lines, previousContent,
                 sink, sinkClosed, timer, doneWrites, closes, firedSilent>>
  /\ UNCHANGED <<hsError, upStatus>>
  /\ UNCHANGED exceptStream

----------------------------------------------------------------------------
(* handleStream *)

\* reader.read() resolves with a chunk of n tokens
ReadChunk(n) ==
  /\ hsPc = "read"
  /\ n \in 1..Len(upstream)
  /\ LET segs == Split(buffer \o SubSeq(upstream, 1, n))
         todo == DataLines(AllButLast(segs))
     IN /\ buffer' = LastSegment(segs)
        /\ lines' = todo
        /\ hsPc' = IF todo = <<>> THEN "read" ELSE "line"
  /\ upstream' = Slice(upstream, n)
  /\ UNCHANGED <<request, reqPc, response, text, previousContent, sink,
                 sinkClosed, timer, doneWrites, closes, firedSilent>>
  /\ UNCHANGED <<hsError, upStatus, respStatus>>
  /\ UNCHANGED exceptStream

\* one iteration of the for loop of the read loop: await processLine(line, ...)
HsProcessLine ==
  /\ hsPc = "line"
  /\ LET line == Head(lines)
         frames == ProcessLineFrames(line, previousContent)
     IN IF frames # <<>> /\ ~Accepts
        THEN \* both writes of processLine reject: to the catch block
             /\ hsPc' = "catch"
             /\ hsError' = WriterClosedMessage
             /\ UNCHANGED <<lines, previousContent, sink>>
        ELSE /\ sink' = sink \o frames
             /\ hsError' = hsError
             /\ previousContent' =
                  KeepResult(ProcessLineResult(line, previousContent), previousContent)
             /\ lines' = Tail(lines)
             /\ hsPc' = IF Tail(lines) = <<>> THEN "read" ELSE "line"
  /\ UNCHANGED <<request, reqPc, response, text, upstream, buffer,
                 sinkClosed, timer, doneWrites, closes, firedSilent>>
  /\ UNCHANGED <<upStatus, respStatus>>
  /\ UNCHANGED exceptStream

\* reader.read() resolves with done: clearTimeout, then the leftover buffer
ReadDone ==
  /\ hsPc = "read"
  /\ upstream = <<>>
  /\ timer' = Cleared(timer)
  /\ LET todo == IF buffer # <<>> THEN DataLines(Split(buffer)) ELSE <<>>
     IN /\ lines' = todo
        /\ hsPc' = IF todo = <<>> THEN "sentinel" ELSE "flush"
  /\ UNCHANGED <<request, reqPc, response, text, upstream, buffer, previousContent,
                 sink, sinkClosed, doneWrites, closes, firedSilent>>
  /\ UNCHANGED <<hsError, upStatus, respStatus>>
  /\ UNCHANGED exceptStream

\* one iteration of the for loop of the done branch: the result is dropped
HsFlushLine ==
  /\ hsPc = "flush"
  /\ LET line == Head(lines)
         frames == ProcessLineFrames(line, previousContent)
     IN IF frames # <<>> /\ ~Accepts
        THEN /\ hsPc' = "catch"
             /\ hsError' = WriterClosedMessage
             /\ UNCHANGED <<lines, sink>>
        ELSE /\ sink' = sink \o frames
             /\ hsError' = hsError
             /\ lines' = Tail(lines)
             /\ hsPc' = IF Tail(lines) = <<>> THEN "sentinel" ELSE "flush"
  /\ UNCHANGED <<request, reqPc, response, text, upstream, buffer, previousContent,
                 sinkClosed, timer, doneWrites, closes, firedSilent>>
  /\ UNCHANGED <<upStatus, respStatus>>
  /\ UNCHANGED exceptStream

\* await writer.write("data: [DONE]") of the done branch
HsWriteDone ==
  /\ hsPc = "sentinel"
  /\ IF Accepts
     THEN /\ sink' = Append(sink, DoneFrame)
          /\ doneWrites' = doneWrites + 1
          /\ hsPc' = "close"
          /\ hsError' = hsError
     ELSE /\ hsPc' = "catch"
          /\ hsError' = WriterClosedMessage
          /\ UNCHANGED <<sink, doneWrites>>
  /\ UNCHANGED <<request, reqPc, response, text, upstream, buffer, lines,
                 previousContent, sinkClosed, timer, closes, firedSilent>>
  /\ UNCHANGED <<upStatus, respStatus>>
  /\ UNCHANGED exceptStream

\* await writer.close() of the done branch, then break
HsClose ==
  /\ hsPc = "close"
  /\ IF Accepts
     THEN /\ sinkClosed' = TRUE
          /\ closes' = closes + 1
          /\ hsPc' = "end"
          /\ hsError' = hsError
     ELSE /\ hsPc' = "catch"
          /\ hsError' = WriterClosedMessage
          /\ UNCHANGED <<sinkClosed, closes>>
  /\ UNCHANGED <<request, reqPc, response, text, upstream, buffer, lines,
                 previousContent, sink, timer, doneWrites, firedSilent>>
  /\ UNCHANGED <<upStatus, respStatus>>
  /\ UNCHANGED exceptStream

\* reader.read() rejects
ReadError(message) ==
  /\ hsPc = "read"
  /\ hsPc' = "catch"
  /\ hsError' = message
  /\ UNCHANGED <<request, reqPc, response, text, upstream, buffer, lines,
                 previousContent, sink, sinkClosed, timer, doneWrites, closes,
                 firedSilent>>
  /\ UNCHANGED <<upStatus, respStatus>>
  /\ UNCHANGED exceptStream

\* the catch block: clearTimeout, write of the error frame
HsCatch ==
  /\ hsPc = "catch"
  /\ timer' = Cleared(timer)
  /\ IF Accepts
     THEN sink' = Append(sink, ErrorFrameOf(hsError)) /\ hsPc' = "catchSentinel"
     ELSE sink' = sink /\ hsPc' = "rejected"
  /\ UNCHANGED <<request, reqPc, response, text, upstream, buffer, lines,
                 previousContent, sinkClosed, doneWrites, closes, firedSilent>>
  /\ UNCHANGED <<hsError, upStatus, respStatus>>
  /\ UNCHANGED exceptStream

\* the catch block: write of the sentinel
HsCatchWriteDone ==
  /\ hsPc = "catchSentinel"
  /\ IF Accepts
     THEN /\ sink' = Append(sink, DoneFrame)
          /\ doneWrites' = doneWrites + 1
          /\ hsPc' = "catchClose"
     ELSE /\ hsPc' = "rejected"
          /\ UNCHANGED <<sink, doneWrites>>
  /\ UNCHANGED <<request, reqPc, response, text, upstream, buffer, lines,
                 previousContent, sinkClosed, timer, closes, firedSilent>>
  /\ UNCHANGED <<hsError, upStatus, respStatus>>
  /\ UNCHANGED exceptStream

\* the catch block: close
HsCatchClose ==
  /\ hsPc = "catchClose"
  /\ IF Accepts
     THEN /\ sinkClosed' = TRUE
          /\ closes' = closes + 1
          /\ hsPc' = "end"
     ELSE /\ hsPc' = "rejected"
          /\ UNCHANGED <<sinkClosed, closes>>
  /\ UNCHANGED <<request, reqPc, response, text, upstream, buffer, lines,
                 previousContent, sink, timer, doneWrites, firedSilent>>
  /\ UNCHANGED <<hsError, upStatus, respStatus>>
  /\ UNCHANGED exceptStream

\* handleStream(...).catch: clearTimeout, then the three calls inside try.
\* It runs only after a call of the catch block was refused, and the writer
\* is closed from then on, so its first write rejects and the rest is skipped.
HsRejectionHandler ==
  /\ hsPc = "rejected"
  /\ timer' = Cleared(timer)
  /\ IF Accepts
     THEN /\ sink' = sink \o <<ErrorFrameOf(WriterClosedMessage), DoneFrame>>
          /\ doneWrites' = doneWrites + 1
          /\ sinkClosed' = TRUE
          /\ closes' = closes + 1
     ELSE UNCHANGED <<sink, doneWrites, sinkClosed, closes>>
  /\ hsPc' = "end"
  /\ UNCHANGED <<request, reqPc, response, text, upstream, buffer, lines,
                 previousContent, firedSilent>>
  /\ UNCHANGED <<hsError, upStatus, respStatus>>
  /\ UNCHANGED exceptStream

----------------------------------------------------------------------------
(* The timeout callback *)

\* handleStream waits in an await or has ended. After a rejected call its
\* catch block, and after a rejection of handleStream the handler attached
\* with .catch, run as microtasks: no timer callback and no continuation of
\* the callback runs before them.
Suspended == hsPc \notin {"catch", "rejected"}

\* the timer expires: write of the timeout frame
TimerFires ==
  /\ timer = "armed"
  /\ Suspended
  /\ firedSilent' = (upstream = text /\ hsPc = "read")
  /\ IF Accepts
     THEN sink' = Append(sink, TimeoutFrame) /\ timer' = "sentinel"
     ELSE sink' = sink /\ timer' = "done"
  /\ UNCHANGED <<request, reqPc, response, text, upstream, hsPc, buffer, lines,
                 previousContent, sinkClosed, doneWrites, closes>>
  /\ UNCHANGED <<hsError, upStatus, respStatus>>
  /\ UNCHANGED exceptStream

\* the callback: write of the sentinel
TimerWriteDone ==
  /\ timer = "sentinel"
  /\ Suspended
  /\ IF Accepts
     THEN /\ sink' = Append(sink, DoneFrame)
          /\ doneWrites' = doneWrites + 1
          /\ timer' = "close"
     ELSE /\ timer' = "done"
          /\ UNCHANGED <<sink, doneWrites>>
  /\ UNCHANGED <<request, reqPc, response, text, upstream, hsPc, buffer, lines,
                 previousContent, sinkClosed, closes, firedSilent>>
  /\ UNCHANGED <<hsError, upStatus, respStatus>>
  /\ UNCHANGED exceptStream

\* the callback: close
TimerClose ==
  /\ timer = "close"
  /\ Suspended
  /\ IF Accepts
     THEN sinkClosed' = TRUE /\ closes' = closes + 1
     ELSE UNCHANGED <<sinkClosed, closes>>
  /\ timer' = "done"
  /\ UNCHANGED <<request, reqPc, response, text, upstream, hsPc, buffer, lines,
                 previousContent, sink, doneWrites, firedSilent>>
  /\ UNCHANGED <<hsError, upStatus, respStatus>>
  /\ UNCHANGED exceptStream

----------------------------------------------------------------------------
(* fetchWithRetry *)

\* what one call of fetch can do: resolve with a response, or reject
\* lengths of response bodies, on both sides of the truncation limit
BodyLengths == {BODY_LIMIT, BODY_LIMIT + 1}

Outcomes ==
  [kind : {"response"}, status : Statuses, html : BOOLEAN, body : BodyLengths]
    \cup {[kind |-> "exception", status |-> 0, html |-> FALSE, body |-> 0]}

\* responseText.slice(0, 1000), as the length of the result
TruncatedBody(length) == IF length > BODY_LIMIT THEN BODY_LIMIT ELSE length

\* JSON.stringify of lastError: an Error object has no enumerable property
Stringified(lastError) ==
  IF lastError.kind = "exception" THEN [kind |-> "empty"] ELSE lastError

\* the object given to JSON.stringify in the final throw
ThrownError(lastError, retries) ==
  [lastError |-> Stringified(lastError), retries |-> retries]

\* response.ok
IsOk(status) == status >= 200 /\ status <= 299

\* a classification that retries every client error too
IsRetryableFrom400(status, html) == status >= 400 \/ html

\* a classification that forgets the HTML error page
IsRetryableStatusOnly(status, html) == status >= 500

\* response.status >= 500 || contentType.includes("text/html")
IsRetryable(status, html) == status >= 500 \/ html

\* i < retries - 1
HasAttemptLeft(i, retries) == i < retries - 1

\* a backoff that multiplies by the loop index
SleepDelayByIndex(i) == RETRY_DELAY * i

\* RETRY_DELAY * (i + 1)
SleepDelay(i) == RETRY_DELAY * (i + 1)

RetryIdle ==
  /\ rRetries = 0
  /\ rI = 0
  /\ rPc = "idle"
  /\ rOutcomes = <<>>
  /\ rSleeps = <<>>
  /\ rLastError = [kind |-> "undefined"]
  /\ rError = [kind |-> "none"]

RetryInit ==
  /\ rRetries \in 1..MaxRetriesArg
  /\ rI = 0
  /\ rPc = "attempt"
  /\ rOutcomes = <<>>
  /\ rSleeps = <<>>
  /\ rLastError = [kind |-> "undefined"]
  /\ rError = [kind |-> "none"]

\* one iteration of the for loop: await fetch, then the classification
RetryAttempt(o) ==
  /\ rPc = "attempt"
  /\ rI < rRetries
  /\ rOutcomes' = Append(rOutcomes, o)
  /\ IF o.kind = "exception"
     THEN \* catch (error)
          /\ rLastError' = [kind |-> "exception"]
          /\ IF HasAttemptLeft(rI, rRetries)
             THEN rSleeps' = Append(rSleeps, SleepDelay(rI)) /\ rPc' = "sleep"
             ELSE rSleeps' = rSleeps /\ rPc' = "thrown"
     ELSE IF IsOk(o.status)
     THEN /\ rPc' = "returned"
          /\ UNCHANGED <<rLastError, rSleeps>>
     ELSE IF IsRetryable(o.status, o.html)
     THEN /\ rLastError' = [kind |-> "retryable", status |-> o.status,
                             contentType |-> o.html,
                             responseText |-> TruncatedBody(o.body),
                             headers |-> [contentType |-> o.html]]
          /\ IF HasAttemptLeft(rI, rRetries)
             THEN rSleeps' = Append(rSleeps, SleepDelay(rI)) /\ rPc' = "sleep"
             ELSE rSleeps' = rSleeps /\ rPc' = "thrown"
     ELSE \* break, then throw
          /\ rLastError' = [kind |-> "terminal", status |-> o.status,
                             headers |-> [contentType |-> o.html]]
          /\ rSleeps' = rSleeps
          /\ rPc' = "thrown"
  /\ rError' = IF rPc' = "thrown" THEN ThrownError(rLastError', rRetries) ELSE rError
  /\ UNCHANGED <<rRetries, rI>>
  /\ UNCHANGED exceptRetry

\* sleep resolves: continue, i++
RetryWake ==
  /\ rPc = "sleep"
  /\ rI' = rI + 1
  /\ rPc' = "attempt"
  /\ UNCHANGED <<rRetries, rOutcomes, rSleeps, rLastError, rError>>
  /\ UNCHANGED exceptRetry

----------------------------------------------------------------------------
(* The two Delta Normalizers *)

NormChars == {"a", "b"}
Strings == UNION { [1..n -> NormChars] : n \in 0..MaxLen }

\* while (i < previous.length && i < current.length && previous[i] === current[i]) i++
RECURSIVE CommonPrefixScan(_, _, _)
CommonPrefixScan(previous, current, i) ==
  IF i < Len(previous) /\ i < Len(current) /\ previous[i + 1] = current[i + 1]
  THEN CommonPrefixScan(previous, current, i + 1)
  ELSE i

\* a scan that starts at the second character
getIncrementalContentByLength(previous, current) ==
  Slice(current, CommonPrefixScan(previous, current, 1))

getIncrementalContent(previous, current) ==
  Slice(current, CommonPrefixScan(previous, current, 0))

NormIdle ==
  /\ nPrev = <<>>
  /\ nCur = <<>>
  /\ nPc = "idle"
  /\ nMain = <<>>
  /\ nV1 = <<>>

NormInit ==
  /\ nPrev \in Strings
  /\ nCur \in Strings
  /\ nPc = "input"
  /\ nMain = <<>>
  /\ nV1 = <<>>

\* both normalizers applied to (nPrev, nCur)
Normalize ==
  /\ nPc = "input"
  /\ nMain' = NewContent(nPrev, nCur)
  /\ nV1' = getIncrementalContent(nPrev, nCur)
  /\ nPc' = "done"
  /\ UNCHANGED <<nPrev, nCur>>
  /\ UNCHANGED exceptNorm

----------------------------------------------------------------------------
(* Two concurrent sessions of handleStream and the module's one streamDecoder *)
(*                                                                          *)
(* Here a chunk is a sequence of bytes. Every token of the text model is    *)
(* one ASCII byte; one character outside ASCII takes the two bytes Lead     *)
(* and Trail. The sessions modelled are those whose reads do not fail and   *)
(* whose timer does not expire before the upstream ends.                    *)

Sessions == {1, 2}

Lead == "<C3>"
Trail == "<A9>"
Wide == "<U+00E9>"
Replacement == "<U+FFFD>"

\* the characters streamDecoder.decode(bytes, { stream: true }) returns when
\* it starts with the bytes `pending` kept from the call before
RECURSIVE DecodeText(_, _)
DecodeText(pending, bytes) ==
  IF bytes = <<>> THEN <<>>
  ELSE LET b == Head(bytes)
       IN IF pending = <<>>
          THEN IF b = Lead THEN DecodeText(<<Lead>>, Tail(bytes))
               ELSE IF b = Trail THEN <<Replacement>> \o DecodeText(<<>>, Tail(bytes))
               ELSE <<b>> \o DecodeText(<<>>, Tail(bytes))
          ELSE IF b = Trail THEN <<Wide>> \o DecodeText(<<>>, Tail(bytes))
               ELSE IF b = Lead THEN <<Replacement>> \o DecodeText(<<Lead>>, Tail(bytes))
               ELSE <<Replacement, b>> \o DecodeText(<<>>, Tail(bytes))

\* the bytes the decoder keeps for its next call
DecodePending(pending, bytes) ==
  IF bytes = <<>> THEN pending
  ELSE IF bytes[Len(bytes)] = Lead THEN <<Lead>> ELSE <<>>

\* the bodies the two upstreams send
SessionBodies ==
  { <<DataPrefix, "a", Lead, Trail, NL>>,
    <<DataPrefix, "a", NL, DataPrefix, "a", "b">>,
    <<DataPrefix, Lead, Trail>> }

SessionStart(bytes) ==
  [bytes |-> bytes, upstream |-> bytes, pc |-> "read", started |-> FALSE,
   startPending |-> <<>>, buffer |-> <<>>, lines |-> <<>>,
   previousContent |-> <<>>, fed |-> <<>>, sink |-> <<>>]

SessIdle ==
  /\ session = [s \in Sessions |-> SessionStart(<<>>) ]
  /\ decoderPending = <<>>

SessInit ==
  /\ session \in { [s \in Sessions |-> SessionStart(b[s])] : b \in [Sessions -> SessionBodies] }
  /\ decoderPending = <<>>

\* reader.read() of session s resolves with a chunk of n bytes
SessReadChunk(s, n) ==
  /\ session[s].pc = "read"
  /\ n \in 1..Len(session[s].upstream)
  /\ LET chunk == SubSeq(session[s].upstream, 1, n)
         valueText == DecodeText(decoderPending, chunk)
         segs == Split(session[s].buffer \o valueText)
         todo == DataLines(AllButLast(segs))
     IN /\ decoderPending' = DecodePending(decoderPending, chunk)
        /\ session' = [session EXCEPT
             ![s].upstream = Slice(@, n),
             ![s].started = TRUE,
             ![s].startPending = IF session[s].started THEN @ ELSE decoderPending,
             ![s].buffer = LastSegment(segs),
             ![s].lines = todo,
             ![s].pc = IF todo = <<>> THEN "read" ELSE "line"]
  /\ UNCHANGED exceptSess

\* one iteration of the for loop of the read loop of session s
SessProcessLine(s) ==
  /\ session[s].pc = "line"
  /\ LET line == Head(session[s].lines)
         previous == session[s].previousContent
     IN session' = [session EXCEPT
          ![s].sink = @ \o ProcessLineFrames(line, previous),
          ![s].fed = Append(@, line),
          ![s].previousContent = KeepResult(ProcessLineResult(line, previous), previous),
          ![s].lines = Tail(@),
          ![s].pc = IF Tail(session[s].lines) = <<>> THEN "read" ELSE "line"]
  /\ UNCHANGED decoderPending
  /\ UNCHANGED exceptSess

\* reader.read() of session s resolves with done
SessReadDone(s) ==
  /\ session[s].pc = "read"
  /\ session[s].upstream = <<>>
  /\ LET todo == IF session[s].buffer # <<>>
                 THEN DataLines(Split(session[s].buffer)) ELSE <<>>
     IN session' = [session EXCEPT
          ![s].lines = todo,
          ![s].pc = IF todo = <<>> THEN "sentinel" ELSE "flush"]
  /\ UNCHANGED decoderPending
  /\ UNCHANGED exceptSess

\* one iteration of the for loop of the done branch of session s
SessFlushLine(s) ==
  /\ session[s].pc = "flush"
  /\ LET line == Head(session[s].lines)
     IN session' = [session EXCEPT
          ![s].sink = @ \o ProcessLineFrames(line, session[s].previousContent),
          ![s].fed = Append(@, line),
          ![s].lines = Tail(@),
          ![s].pc = IF Tail(session[s].lines) = <<>> THEN "sentinel" ELSE "flush"]
  /\ UNCHANGED decoderPending
  /\ UNCHANGED exceptSess

\* the sentinel and the close of the done branch of session s
SessWriteDone(s) ==
  /\ session[s].pc = "sentinel"
  /\ session' = [session EXCEPT ![s].sink = Append(@, DoneFrame), ![s].pc = "end"]
  /\ UNCHANGED decoderPending
  /\ UNCHANGED exceptSess

----------------------------------------------------------------------------
(* handleRequest of each server of the repository, call by call *)

Servers == {"main.ts", "v1-file.ts", "part_000", "v1.ts"}

\* path: "models" and "completions" stand for the server's own two paths;
\* fresh: the model cache holds a value younger than CACHE_TTL
GateRequests ==
  [method : {"GET", "POST"}, path : {"models", "completions", "other"},
   auth : {"missing", "basic", "bearer"}, model : BOOLEAN, image : BOOLEAN,
   fresh : BOOLEAN]

\* !(!authHeader || !authHeader.startsWith("Bearer "))
HasBearer(r) == r.auth = "bearer"

HasCache(server) == server \in {"main.ts", "v1-file.ts"}
HasUpload(server) == server = "v1-file.ts"

\* the test before "Method not allowed"
NotAllowed(server, r) ==
  IF server = "part_000" THEN r.method # "POST"
  ELSE r.method # "POST" \/ r.path # "completions"

GateIdle ==
  /\ gServer = "none"
  /\ gRequest = [method |-> "GET", path |-> "other", auth |-> "missing",
                 model |-> FALSE, image |-> FALSE, fresh |-> FALSE]
  /\ gPc = "idle"
  /\ gCalls = <<>>
  /\ gStatus = 0

GateInit ==
  /\ gServer \in Servers
  /\ gRequest \in GateRequests
  /\ gPc = "start"
  /\ gCalls = <<>>
  /\ gStatus = 0

\* handleRequest of main.ts, v1-file.ts and part_000 up to its first upstream call
GateChecked ==
  /\ gPc = "start"
  /\ gServer \in {"main.ts", "v1-file.ts", "part_000"}
  /\ IF gRequest.method = "GET" /\ gRequest.path = "models"
     THEN IF ~HasBearer(gRequest)
          THEN gPc' = "responded" /\ gStatus' = 401 /\ gCalls' = gCalls
          ELSE IF HasCache(gServer) /\ gRequest.fresh
          THEN gPc' = "responded" /\ gStatus' = DefaultStatus /\ gCalls' = gCalls
          ELSE gPc' = "modelsFetch" /\ gStatus' = gStatus /\ gCalls' = Append(gCalls, "models")
     ELSE IF NotAllowed(gServer, gRequest)
     THEN gPc' = "responded" /\ gStatus' = 405 /\ gCalls' = gCalls
     ELSE IF ~HasBearer(gRequest)
     THEN gPc' = "responded" /\ gStatus' = 401 /\ gCalls' = gCalls
     ELSE IF ~gRequest.model
     THEN gPc' = "responded" /\ gStatus' = 400 /\ gCalls' = gCalls
     ELSE IF HasUpload(gServer) /\ gRequest.image
     THEN gPc' = "upload" /\ gStatus' = gStatus /\ gCalls' = Append(gCalls, "upload")
     ELSE gPc' = "chatFetch" /\ gStatus' = gStatus /\ gCalls' = Append(gCalls, "chat")
  /\ UNCHANGED <<gServer, gRequest>>
  /\ UNCHANGED exceptGate

\* handleRequest of v1.ts up to its first upstream call: the request is
\* forwarded with its headers, whatever they are
GateV1 ==
  /\ gPc = "start"
  /\ gServer = "v1.ts"
  /\ IF gRequest.method # "GET" /\ gRequest.path = "completions" /\ gRequest.image
     THEN gPc' = "upload" /\ gCalls' = Append(gCalls, "upload")
     ELSE /\ gPc' = "forwardFetch"
          /\ gCalls' = Append(gCalls, IF gRequest.path = "completions" THEN "chat"
                                      ELSE IF gRequest.path = "models" THEN "models"
                                      ELSE "other")
  /\ UNCHANGED <<gServer, gRequest, gStatus>>
  /\ UNCHANGED exceptGate

\* the image upload settles
GateUploadSettles(ok) ==
  /\ gPc = "upload"
  /\ IF ok
     THEN /\ gPc' = IF gServer = "v1.ts" THEN "forwardFetch" ELSE "chatFetch"
          /\ gCalls' = Append(gCalls, "chat")
          /\ gStatus' = gStatus
     ELSE gPc' = "responded" /\ gStatus' = 500 /\ gCalls' = gCalls
  /\ UNCHANGED <<gServer, gRequest>>
  /\ UNCHANGED exceptGate

\* the upstream call settles: it resolves with a status, or it rejects
GateFetchSettles(resolves, status) ==
  /\ gPc \in {"modelsFetch", "chatFetch", "forwardFetch"}
  /\ gPc' = "responded"
  /\ gStatus' = IF ~resolves THEN 500
                ELSE IF gPc = "forwardFetch" THEN status
                ELSE DefaultStatus
  /\ UNCHANGED <<gServer, gRequest, gCalls>>
  /\ UNCHANGED exceptGate

----------------------------------------------------------------------------
(* The model-list cache: GET /api/models with a bearer token *)

MaxTicks == 4        \* how many times the clock advances

CACHE_TTL == 60 * 60 * 1000

\* let cachedModels: string | null = null
Null == "null"

\* bodies of a 2xx answer of the models endpoint; the second one is empty
ModelBodies == {"{models}", "", "{models2}"}

\* by how much the clock advances between two steps
ClockSteps == {1, CACHE_TTL - 1}

Slots == {1, 2}

\* the cache test with the boundary on the wrong side
IsCachedInclusive(value, now, timestamp) ==
  value \notin {Null, ""} /\ now - timestamp <= CACHE_TTL

\* cachedModels && now - cachedModelsTimestamp < CACHE_TTL:
\* null and the empty string are falsy
IsCached(value, now, timestamp) ==
  value \notin {Null, ""} /\ now - timestamp < CACHE_TTL

IdleSlot ==
  [pc |-> "idle", now |-> 0, status |-> 0, body |-> Null, calls |-> 0]

CacheIdle ==
  /\ clock = 0
  /\ ticks = 0
  /\ cachedModels = Null
  /\ cachedModelsTimestamp = 0
  /\ slot = [k \in Slots |-> IdleSlot]

\* the process starts long after the epoch: Date.now() is beyond the TTL
CacheInit ==
  /\ clock = CACHE_TTL
  /\ ticks = 0
  /\ cachedModels = Null
  /\ cachedModelsTimestamp = 0
  /\ slot = [k \in Slots |-> IdleSlot]

\* time passes
Tick(d) ==
  /\ ticks < MaxTicks
  /\ ticks' = ticks + 1
  /\ clock' = clock + d
  /\ UNCHANGED <<cachedModels, cachedModelsTimestamp, slot>>
  /\ UNCHANGED exceptCache

\* an authorised GET arrives: the cache test, then the answer from the cache
\* or the call of fetchWithRetry
ModelsRequest(k) ==
  /\ slot[k].pc \in {"idle", "done"}
  /\ IF IsCached(cachedModels, clock, cachedModelsTimestamp)
     THEN slot' = [slot EXCEPT ![k] = [pc |-> "done", now |-> clock,
                     status |-> DefaultStatus, body |-> cachedModels, calls |-> 0]]
     ELSE slot' = [slot EXCEPT ![k] = [pc |-> "fetch", now |-> clock,
                     status |-> 0, body |-> Null, calls |-> 1]]
  /\ UNCHANGED <<clock, ticks, cachedModels, cachedModelsTimestamp>>
  /\ UNCHANGED exceptCache

\* fetchWithRetry returns and response.text() resolves with the body
ModelsFetched(k, body) ==
  /\ slot[k].pc = "fetch"
  /\ cachedModels' = body
  /\ cachedModelsTimestamp' = slot[k].now
  /\ slot' = [slot EXCEPT ![k].pc = "done", ![k].status = DefaultStatus, ![k].body = body]
  /\ UNCHANGED <<clock, ticks>>
  /\ UNCHANGED exceptCache

\* fetchWithRetry throws, or response.text() rejects
ModelsFailed(k) ==
  /\ slot[k].pc = "fetch"
  /\ slot' = [slot EXCEPT ![k].pc = "done", ![k].status = 500]
  /\ UNCHANGED <<clock, ticks, cachedModels, cachedModelsTimestamp>>
  /\ UNCHANGED exceptCache

----------------------------------------------------------------------------
(* streamResponse of v1.ts *)
(*                                                                          *)
(* The body of the read loop has no await: one chunk is one action.         *)

\* a body whose content shrinks to a prefix of what came before
ShrinkingBody ==
  <<DataPrefix, "a", "b", NL, DataPrefix, "a", NL, DataPrefix, "a", "c", NL>>

V1Bodies == Bodies \cup {ShrinkingBody}

\* one iteration of the for loop of streamResponse; st is [previous, out, log]
V1ProcessLine(line, st) ==
  IF line = <<>> \/ ~IsDataLine(line) THEN st
  ELSE IF Slice(line, 1) = <<DonePayload>>
  THEN [st EXCEPT !.out = Append(@, DoneFrame)]
  ELSE IF HasContent(line)
  THEN LET currentContent == Slice(line, 1)
           incrementalContent == getIncrementalContent(st.previous, currentContent)
       IN IF incrementalContent # <<>>
          THEN [previous |-> currentContent,
                out |-> Append(st.out, <<DataPrefix>> \o incrementalContent),
                log |-> Append(st.log, [content |-> currentContent,
                                        previous |-> currentContent])]
          ELSE [st EXCEPT !.log = Append(@, [content |-> currentContent,
                                             previous |-> st.previous])]
  ELSE IF IsPlainObject(line)
  THEN [st EXCEPT !.out = Append(@, line)]
  ELSE st

RECURSIVE V1ProcessLines(_, _)
V1ProcessLines(todo, st) ==
  IF todo = <<>> THEN st
  ELSE V1ProcessLines(Tail(todo), V1ProcessLine(Head(todo), st))

\* the leftover buffer after the loop: only a content increment is enqueued,
\* previousContent is not assigned
V1Leftover(left, st) ==
  LET data == IF IsDataLine(left) THEN left ELSE <<DataPrefix>> \o left
  IN IF left = <<>> \/ ~HasContent(data) THEN st
     ELSE LET currentContent == Slice(data, 1)
              incrementalContent == getIncrementalContent(st.previous, currentContent)
          IN [previous |-> st.previous,
              out |-> IF incrementalContent # <<>>
                      THEN Append(st.out, <<DataPrefix>> \o incrementalContent)
                      ELSE st.out,
              log |-> Append(st.log, [content |-> currentContent,
                                      previous |-> st.previous])]

V1Idle ==
  /\ v1Upstream = <<>>
  /\ v1Buffer = <<>>
  /\ v1Previous = <<>>
  /\ v1Out = <<>>
  /\ v1Pc = "idle"
  /\ v1Log = <<>>

V1Init ==
  /\ v1Upstream \in V1Bodies
  /\ v1Buffer = <<>>
  /\ v1Previous = <<>>
  /\ v1Out = <<>>
  /\ v1Pc = "read"
  /\ v1Log = <<>>

\* reader.read() resolves with a chunk of n tokens, and the for loop runs
V1ReadChunk(n) ==
  /\ v1Pc = "read"
  /\ n \in 1..Len(v1Upstream)
  /\ LET segs == Split(v1Buffer \o SubSeq(v1Upstream, 1, n))
         st == V1ProcessLines(AllButLast(segs),
                 [previous |-> v1Previous, out |-> v1Out, log |-> v1Log])
     IN /\ v1Buffer' = LastSegment(segs)
        /\ v1Previous' = st.previous
        /\ v1Out' = st.out
        /\ v1Log' = st.log
  /\ v1Upstream' = Slice(v1Upstream, n)
  /\ UNCHANGED v1Pc
  /\ UNCHANGED exceptV1

\* reader.read() resolves with done: the leftover, then controller.close()
V1ReadDone ==
  /\ v1Pc = "read"
  /\ v1Upstream = <<>>
  /\ LET st == V1Leftover(v1Buffer,
                 [previous |-> v1Previous, out |-> v1Out, log |-> v1Log])
     IN /\ v1Out' = st.out
        /\ v1Log' = st.log
  /\ v1Pc' = "closed"
  /\ UNCHANGED <<v1Upstream, v1Buffer, v1Previous>>
  /\ UNCHANGED exceptV1

\* reader.read() rejects: controller.error(e)
V1ReadError ==
  /\ v1Pc = "read"
  /\ v1Pc' = "errored"
  /\ UNCHANGED <<v1Upstream, v1Buffer, v1Previous, v1Out, v1Log>>
  /\ UNCHANGED exceptV1

----------------------------------------------------------------------------
(* The streaming session of v1-file.ts: handleStream and the timeout callback *)
(*                                                                          *)
(* handleStream catches whatever its body throws and wraps the close of its *)
(* finally block in a try, so it never rejects: the handler attached to it  *)
(* with .catch never runs.                                                  *)

FileAccepts == ~fClosed

\* 'data: {"error":true,"message":"Response timeout"}'
FileTimeoutFrame == <<DataPrefix, "{timeout}">>

FileIdle ==
  /\ fUpstream = <<>>
  /\ fPc = "idle"
  /\ fBuffer = <<>>
  /\ fLines = <<>>
  /\ fPrevious = <<>>
  /\ isCompleted = FALSE
  /\ isStreamActive = FALSE
  /\ fTimer = "unset"
  /\ fSink = <<>>
  /\ fClosed = FALSE
  /\ fDoneWrites = 0
  /\ fCloses = 0

\* the streamContext built by handleRequest, the timer armed, handleStream called
FileInit ==
  /\ fUpstream \in Bodies
  /\ fPc = "read"
  /\ fBuffer = <<>>
  /\ fLines = <<>>
  /\ fPrevious = <<>>
  /\ isCompleted = FALSE
  /\ isStreamActive = TRUE
  /\ fTimer = "armed"
  /\ fSink = <<>>
  /\ fClosed = FALSE
  /\ fDoneWrites = 0
  /\ fCloses = 0

\* context.reader.read() resolves with a chunk of n tokens
FileReadChunk(n) ==
  /\ fPc = "read"
  /\ n \in 1..Len(fUpstream)
  /\ LET segs == Split(fBuffer \o SubSeq(fUpstream, 1, n))
         todo == DataLines(AllButLast(segs))
     IN /\ fBuffer' = LastSegment(segs)
        /\ fLines' = todo
        /\ fPc' = IF todo = <<>> THEN "read" ELSE "line"
  /\ fUpstream' = Slice(fUpstream, n)
  /\ UNCHANGED <<fPrevious, isCompleted, isStreamActive, fTimer, fSink,
                 fClosed, fDoneWrites, fCloses>>
  /\ UNCHANGED exceptFile

\* clearTimeout of the catch block, under if (!isCompleted)
CatchCleared(t) == IF isCompleted THEN t ELSE Cleared(t)

\* await processLine(line, context) in the read loop: the isStreamActive flag
\* is not read. When the writes of processLine reject, the catch block runs at
\* once: its own write rejects too and is swallowed.
FileProcessLine ==
  /\ fPc = "line"
  /\ LET line == Head(fLines)
         frames == ProcessLineFrames(line, fPrevious)
     IN IF frames # <<>> /\ ~FileAccepts
        THEN /\ fPc' = "finally"
             /\ fTimer' = CatchCleared(fTimer)
             /\ UNCHANGED <<fLines, fPrevious, fSink>>
        ELSE /\ fSink' = fSink \o frames
             /\ fPrevious' = ProcessLineResult(line, fPrevious)
             /\ fLines' = Tail(fLines)
             /\ fPc' = IF Tail(fLines) = <<>> THEN "read" ELSE "line"
             /\ fTimer' = fTimer
  /\ UNCHANGED <<fUpstream, fBuffer, isCompleted, isStreamActive,
                 fClosed, fDoneWrites, fCloses>>
  /\ UNCHANGED exceptFile

\* await processLine(line, context) in the done branch
FileFlushLine ==
  /\ fPc = "flush"
  /\ LET line == Head(fLines)
         frames == ProcessLineFrames(line, fPrevious)
     IN IF frames # <<>> /\ ~FileAccepts
        THEN /\ fPc' = "finally"
             /\ fTimer' = CatchCleared(fTimer)
             /\ UNCHANGED <<fLines, fPrevious, fSink>>
        ELSE /\ fSink' = fSink \o frames
             /\ fPrevious' = ProcessLineResult(line, fPrevious)
             /\ fLines' = Tail(fLines)
             /\ fPc' = IF Tail(fLines) = <<>> THEN "sentinel" ELSE "flush"
             /\ fTimer' = fTimer
  /\ UNCHANGED <<fUpstream, fBuffer, isCompleted, isStreamActive,
                 fClosed, fDoneWrites, fCloses>>
  /\ UNCHANGED exceptFile

\* read() resolves with done: isCompleted = true, clearTimeout, the leftover buffer
FileReadDone ==
  /\ fPc = "read"
  /\ fUpstream = <<>>
  /\ isCompleted' = TRUE
  /\ fTimer' = Cleared(fTimer)
  /\ LET todo == IF fBuffer # <<>> THEN DataLines(Split(fBuffer)) ELSE <<>>
     IN /\ fLines' = todo
        /\ fPc' = IF todo = <<>> THEN "sentinel" ELSE "flush"
  /\ UNCHANGED <<fUpstream, fBuffer, fPrevious, isStreamActive, fSink,
                 fClosed, fDoneWrites, fCloses>>
  /\ UNCHANGED exceptFile

\* await writer.write("data: [DONE]") of the done branch, then break; when it
\* rejects the catch block finds isCompleted set and does nothing
FileWriteDone ==
  /\ fPc = "sentinel"
  /\ fPc' = "finally"
  /\ IF FileAccepts
     THEN fSink' = Append(fSink, DoneFrame) /\ fDoneWrites' = fDoneWrites + 1
     ELSE UNCHANGED <<fSink, fDoneWrites>>
  /\ UNCHANGED <<fUpstream, fBuffer, fLines, fPrevious, isCompleted,
                 isStreamActive, fTimer, fClosed, fCloses>>
  /\ UNCHANGED exceptFile

\* read() rejects, and the catch block runs: clearTimeout and the write of
\* the error frame
FileReadError(message) ==
  /\ fPc = "read"
  /\ fTimer' = CatchCleared(fTimer)
  /\ IF FileAccepts
     THEN fSink' = Append(fSink, ErrorFrameOf(message)) /\ fPc' = "catchSentinel"
     ELSE fSink' = fSink /\ fPc' = "finally"
  /\ UNCHANGED <<fUpstream, fBuffer, fLines, fPrevious, isCompleted,
                 isStreamActive, fClosed, fDoneWrites, fCloses>>
  /\ UNCHANGED exceptFile

\* the write of the sentinel in the catch block, its rejection swallowed
FileCatchWriteDone ==
  /\ fPc = "catchSentinel"
  /\ fPc' = "finally"
  /\ IF FileAccepts
     THEN fSink' = Append(fSink, DoneFrame) /\ fDoneWrites' = fDoneWrites + 1
     ELSE UNCHANGED <<fSink, fDoneWrites>>
  /\ UNCHANGED <<fUpstream, fBuffer, fLines, fPrevious, isCompleted,
                 isStreamActive, fTimer, fClosed, fCloses>>
  /\ UNCHANGED exceptFile

\* finally: await writer.close(), its rejection swallowed
FileFinally ==
  /\ fPc = "finally"
  /\ fPc' = "end"
  /\ IF FileAccepts
     THEN fClosed' = TRUE /\ fCloses' = fCloses + 1
     ELSE UNCHANGED <<fClosed, fCloses>>
  /\ UNCHANGED <<fUpstream, fBuffer, fLines, fPrevious, isCompleted,
                 isStreamActive, fTimer, fSink, fDoneWrites>>
  /\ UNCHANGED exceptFile

\* the timeout callback: the test of the two flags, isStreamActive = false,
\* the first write of the chain
FileTimerFires ==
  /\ fTimer = "armed"
  /\ IF isStreamActive /\ ~isCompleted
     THEN /\ isStreamActive' = FALSE
          /\ IF FileAccepts
             THEN fSink' = Append(fSink, FileTimeoutFrame) /\ fTimer' = "sentinel"
             ELSE fSink' = fSink /\ fTimer' = "done"
     ELSE fTimer' = "done" /\ UNCHANGED <<isStreamActive, fSink>>
  /\ UNCHANGED <<fUpstream, fPc, fBuffer, fLines, fPrevious, isCompleted,
                 fClosed, fDoneWrites, fCloses>>
  /\ UNCHANGED exceptFile

\* .then(() => writer.write("data: [DONE]"))
FileTimerWriteDone ==
  /\ fTimer = "sentinel"
  /\ IF FileAccepts
     THEN fSink' = Append(fSink, DoneFrame) /\ fDoneWrites' = fDoneWrites + 1
          /\ fTimer' = "close"
     ELSE fTimer' = "done" /\ UNCHANGED <<fSink, fDoneWrites>>
  /\ UNCHANGED <<fUpstream, fPc, fBuffer, fLines, fPrevious, isCompleted,
                 isStreamActive, fClosed, fCloses>>
  /\ UNCHANGED exceptFile

\* .then(() => writer.close())
FileTimerClose ==
  /\ fTimer = "close"
  /\ fTimer' = "done"
  /\ IF FileAccepts
     THEN fClosed' = TRUE /\ fCloses' = fCloses + 1
     ELSE UNCHANGED <<fClosed, fCloses>>
  /\ UNCHANGED <<fUpstream, fPc, fBuffer, fLines, fPrevious, isCompleted,
                 isStreamActive, fSink, fDoneWrites>>
  /\ UNCHANGED exceptFile

----------------------------------------------------------------------------
(* The payload of a content frame *)
(*                                                                          *)
(* An object is a function from its field names to values; choices is a     *)
(* sequence of objects and a content is a sequence of characters.           *)

\* { ...obj, [field]: value }
Spread(obj, field, value) ==
  [f \in DOMAIN obj \cup {field} |-> IF f = field THEN value ELSE obj[f]]

\* { content: value }
ContentOnly(value) == [f \in {"content"} |-> value]

\* non-empty contents
Contents == Strings \ {<<>>}

\* deltas that carry a content, with and without a role beside it
Deltas ==
  { ContentOnly(c) : c \in Contents }
    \cup { Spread(ContentOnly(c), "role", "assistant") : c \in Contents }

\* what an upstream sends after its first choice
MoreChoices ==
  { <<>>, << [index |-> 1, finish_reason |-> "stop", delta |-> ContentOnly(<<"b">>)] >> }

Payloads ==
  { [id |-> "chatcmpl", choices |-> <<[index |-> 0, finish_reason |-> "null", delta |-> d]>> \o more] :
      d \in Deltas, more \in MoreChoices }

PreviousContents == { <<>>, <<"a">>, <<"b">> }

\* newData of processLine in main.ts
MainNewData(data, newContent) ==
  Spread(data, "choices",
         << Spread(data.choices[1], "delta",
                   Spread(data.choices[1].delta, "content", newContent)) >>)

\* newOutput of streamResponse in v1.ts
V1NewOutput(parsed, incrementalContent) ==
  Spread(parsed, "choices",
         << Spread(parsed.choices[1], "delta", ContentOnly(incrementalContent)) >>)

PayloadIdle ==
  /\ pServer = "none"
  /\ pData = [id |-> "chatcmpl", choices |-> <<>>]
  /\ pPrevious = <<>>
  /\ pOut = <<>>
  /\ pPc = "idle"

PayloadInit ==
  /\ pServer \in {"main.ts", "v1.ts"}
  /\ pData \in Payloads
  /\ pPrevious \in PreviousContents
  /\ pOut = <<>>
  /\ pPc = "input"

\* processLine of main.ts on a line whose payload carries delta content
MainContentLine ==
  /\ pPc = "input"
  /\ pServer = "main.ts"
  /\ LET newContent == NewContent(pPrevious, pData.choices[1].delta.content)
     IN pOut' = IF newContent # <<>> THEN <<MainNewData(pData, newContent)>> ELSE <<>>
  /\ pPc' = "done"
  /\ UNCHANGED <<pServer, pData, pPrevious>>
  /\ UNCHANGED exceptPayload

\* streamResponse of v1.ts on a line whose payload carries delta content
V1ContentLine ==
  /\ pPc = "input"
  /\ pServer = "v1.ts"
  /\ LET incrementalContent ==
           getIncrementalContent(pPrevious, pData.choices[1].delta.content)
     IN pOut' = IF incrementalContent # <<>>
                THEN <<V1NewOutput(pData, incrementalContent)>> ELSE <<>>
  /\ pPc' = "done"
  /\ UNCHANGED <<pServer, pData, pPrevious>>
  /\ UNCHANGED exceptPayload

----------------------------------------------------------------------------
(* The streaming session of unnamed/part_000, call by call *)
(*                                                                          *)
(* A chunk is one data line. A frame is named by what it is: "line" for     *)
(* what processLine writes, "error", "timeout" and "done".                  *)

MaxChunks == 2

PartIdle ==
  /\ uPc = "idle"
  /\ uChunks = 0
  /\ uLeftover = FALSE
  /\ uTimer = "unset"
  /\ uSink = <<>>
  /\ uClosed = FALSE
  /\ uUnhandled = {}

\* after handleStream(reader, writer, previousContent, timeout) was called
PartInit ==
  /\ uPc = "read"
  /\ uChunks \in 0..MaxChunks
  /\ uLeftover \in BOOLEAN
  /\ uTimer = "armed"
  /\ uSink = <<>>
  /\ uClosed = FALSE
  /\ uUnhandled = {}

\* reader.read() resolves with a chunk
PartReadChunk ==
  /\ uPc = "read"
  /\ uChunks > 0
  /\ uChunks' = uChunks - 1
  /\ uPc' = "line"
  /\ UNCHANGED <<uLeftover, uTimer, uSink, uClosed, uUnhandled>>
  /\ UNCHANGED exceptPart

\* await processLine(line, ...) of the read loop: one write
PartProcessLine ==
  /\ uPc = "line"
  /\ IF uClosed
     THEN uPc' = "catch" /\ uSink' = uSink
     ELSE uPc' = "read" /\ uSink' = Append(uSink, "line")
  /\ UNCHANGED <<uChunks, uLeftover, uTimer, uClosed, uUnhandled>>
  /\ UNCHANGED exceptPart

\* reader.read() resolves with done: clearTimeout, then the leftover buffer
PartReadDone ==
  /\ uPc = "read"
  /\ uChunks = 0
  /\ uTimer' = Cleared(uTimer)
  /\ uPc' = IF uLeftover THEN "flush" ELSE "sentinel"
  /\ UNCHANGED <<uChunks, uLeftover, uSink, uClosed, uUnhandled>>
  /\ UNCHANGED exceptPart

\* await processLine(line, ...) of the done branch
PartFlushLine ==
  /\ uPc = "flush"
  /\ IF uClosed
     THEN uPc' = "catch" /\ uSink' = uSink
     ELSE uPc' = "sentinel" /\ uSink' = Append(uSink, "line")
  /\ UNCHANGED <<uChunks, uLeftover, uTimer, uClosed, uUnhandled>>
  /\ UNCHANGED exceptPart

\* await writer.write("data: [DONE]") of the done branch
PartWriteDone ==
  /\ uPc = "sentinel"
  /\ IF uClosed
     THEN uPc' = "catch" /\ uSink' = uSink
     ELSE uPc' = "close" /\ uSink' = Append(uSink, "done")
  /\ UNCHANGED <<uChunks, uLeftover, uTimer, uClosed, uUnhandled>>
  /\ UNCHANGED exceptPart

\* await writer.close() of the done branch, then break
PartClose ==
  /\ uPc = "close"
  /\ IF uClosed
     THEN uPc' = "catch" /\ uClosed' = uClosed
     ELSE uPc' = "end" /\ uClosed' = TRUE
  /\ UNCHANGED <<uChunks, uLeftover, uTimer, uSink, uUnhandled>>
  /\ UNCHANGED exceptPart

\* reader.read() rejects
PartReadError ==
  /\ uPc = "read"
  /\ uPc' = "catch"
  /\ UNCHANGED <<uChunks, uLeftover, uTimer, uSink, uClosed, uUnhandled>>
  /\ UNCHANGED exceptPart

\* the catch block: clearTimeout and the write of the error frame; a write
\* that rejects there rejects handleStream
PartCatch ==
  /\ uPc = "catch"
  /\ uTimer' = Cleared(uTimer)
  /\ IF uClosed
     THEN uPc' = "rejected" /\ uSink' = uSink
     ELSE uPc' = "catchSentinel" /\ uSink' = Append(uSink, "error")
  /\ UNCHANGED <<uChunks, uLeftover, uClosed, uUnhandled>>
  /\ UNCHANGED exceptPart

\* await writer.write("data: [DONE]") of the catch block
PartCatchWriteDone ==
  /\ uPc = "catchSentinel"
  /\ IF uClosed
     THEN uPc' = "rejected" /\ uSink' = uSink
     ELSE uPc' = "catchClose" /\ uSink' = Append(uSink, "done")
  /\ UNCHANGED <<uChunks, uLeftover, uTimer, uClosed, uUnhandled>>
  /\ UNCHANGED exceptPart

\* await writer.close() of the catch block
PartCatchClose ==
  /\ uPc = "catchClose"
  /\ IF uClosed
     THEN uPc' = "rejected" /\ uClosed' = uClosed
     ELSE uPc' = "end" /\ uClosed' = TRUE
  /\ UNCHANGED <<uChunks, uLeftover, uTimer, uSink, uUnhandled>>
  /\ UNCHANGED exceptPart

\* one call of the handler attached with .catch: it has no try, so a call
\* that rejects rejects the promise .catch returned, which nobody holds
PartRejectionHandler ==
  /\ uPc \in {"rejected", "handlerSentinel", "handlerClose"}
  /\ uTimer' = Cleared(uTimer)
  /\ IF uClosed
     THEN /\ uPc' = "end"
          /\ uUnhandled' = uUnhandled \cup {"handler"}
          /\ UNCHANGED <<uSink, uClosed>>
     ELSE /\ uUnhandled' = uUnhandled
          /\ uPc' = IF uPc = "rejected" THEN "handlerSentinel"
                    ELSE IF uPc = "handlerSentinel" THEN "handlerClose"
                    ELSE "end"
          /\ uSink' = IF uPc = "rejected" THEN Append(uSink, "error")
                      ELSE IF uPc = "handlerSentinel" THEN Append(uSink, "done")
                      ELSE uSink
          /\ uClosed' = (uPc = "handlerClose")
  /\ UNCHANGED <<uChunks, uLeftover>>
  /\ UNCHANGED exceptPart

\* the timeout callback: two writes and a close, called without await and
\* without a try; it runs while handleStream waits in an await
PartTimerFires ==
  /\ uTimer = "armed"
  /\ uPc \notin {"catch", "rejected"}
  /\ uTimer' = "fired"
  /\ IF uClosed
     THEN /\ uUnhandled' = uUnhandled \cup {"timer"}
          /\ UNCHANGED <<uSink, uClosed>>
     ELSE /\ uSink' = uSink \o <<"timeout", "done">>
          /\ uClosed' = TRUE
          /\ uUnhandled' = uUnhandled
  /\ UNCHANGED <<uPc, uChunks, uLeftover>>
  /\ UNCHANGED exceptPart

----------------------------------------------------------------------------
(* fetchWithRetry of main.ts and of unnamed/part_000 on the same upstream *)

\* one outcome of each class: 2xx, 500, another 5xx, an HTML page with a
\* 2xx, a 4xx and a 5xx status, another 4xx, a transport error
AttemptOutcomes ==
  { [kind |-> "response", status |-> 200, html |-> FALSE],
    [kind |-> "response", status |-> 500, html |-> FALSE],
    [kind |-> "response", status |-> 503, html |-> FALSE],
    [kind |-> "response", status |-> 200, html |-> TRUE],
    [kind |-> "response", status |-> 404, html |-> TRUE],
    [kind |-> "response", status |-> 503, html |-> TRUE],
    [kind |-> "response", status |-> 404, html |-> FALSE],
    [kind |-> "exception", status |-> 0, html |-> FALSE] }

\* contentType.includes("text/html") || response.status === 500
PartIsRetryable(status, html) == html \/ status = 500

\* how one iteration of the loop of main.ts ends
MainIteration(o, i, retries) ==
  IF o.kind = "exception"
  THEN IF HasAttemptLeft(i, retries) THEN "continue" ELSE "thrown"
  ELSE IF IsOk(o.status) THEN "returned"
  ELSE IF IsRetryable(o.status, o.html)
  THEN IF HasAttemptLeft(i, retries) THEN "continue" ELSE "thrown"
  ELSE "thrown"

\* how one iteration of the loop of part_000 ends: what is not retried is
\* returned, and so is a retryable response at the last attempt
PartIteration(o, i, retries) ==
  IF o.kind = "exception"
  THEN IF HasAttemptLeft(i, retries) THEN "continue" ELSE "thrown"
  ELSE IF PartIsRetryable(o.status, o.html) /\ HasAttemptLeft(i, retries)
  THEN "continue"
  ELSE "returned"

\* the fetcher after the iteration: sleep and i++, or the end
AfterIteration(fetcher, o, how) ==
  IF how = "continue" THEN [pc |-> "attempt", i |-> fetcher.i + 1, status |-> 0]
  ELSE [pc |-> how, i |-> fetcher.i,
        status |-> IF how = "returned" THEN o.status ELSE 0]

EquivIdle ==
  /\ eRetries = 0
  /\ eScript = <<>>
  /\ eMain = [pc |-> "idle", i |-> 0, status |-> 0]
  /\ ePart = [pc |-> "idle", i |-> 0, status |-> 0]

EquivInit ==
  /\ eRetries \in 1..MaxRetriesArg
  /\ eScript \in [1..eRetries -> AttemptOutcomes]
  /\ eMain = [pc |-> "attempt", i |-> 0, status |-> 0]
  /\ ePart = [pc |-> "attempt", i |-> 0, status |-> 0]

\* one iteration of fetchWithRetry of main.ts
MainFetchAttempt ==
  /\ eMain.pc = "attempt"
  /\ eMain.i < eRetries
  /\ LET o == eScript[eMain.i + 1]
     IN eMain' = AfterIteration(eMain, o, MainIteration(o, eMain.i, eRetries))
  /\ UNCHANGED <<eRetries, eScript, ePart>>
  /\ UNCHANGED exceptEquiv

\* one iteration of fetchWithRetry of part_000
PartFetchAttempt ==
  /\ ePart.pc = "attempt"
  /\ ePart.i < eRetries
  /\ LET o == eScript[ePart.i + 1]
     IN ePart' = AfterIteration(ePart, o, PartIteration(o, ePart.i, eRetries))
  /\ UNCHANGED <<eRetries, eScript, eMain>>
  /\ UNCHANGED exceptEquiv

----------------------------------------------------------------------------
(* Specifications *)

Init == StreamInit /\ RetryIdle /\ NormIdle /\ SessIdle /\ GateIdle /\ CacheIdle /\ V1Idle /\ FileIdle /\ PayloadIdle /\ PartIdle /\ EquivIdle

Next ==
  \/ HandleRequestStart
  \/ FetchResolves
  \/ FetchRejects
  \/ \E n \in 1..Len(upstream) : ReadChunk(n)
  \/ HsProcessLine
  \/ ReadDone
  \/ HsFlushLine
  \/ HsWriteDone
  \/ HsClose
  \/ \E message \in Messages : ReadError(message)
  \/ HsCatch
  \/ HsCatchWriteDone
  \/ HsCatchClose
  \/ HsRejectionHandler
  \/ TimerFires
  \/ TimerWriteDone
  \/ TimerClose

Spec == Init /\ [][Next]_vars

\* The runtime resumes every task whose await has settled and runs an armed
\* timer when its delay has passed; what the upstream does (answering fetch,
\* delivering a chunk, ending, failing) is not in the program's hands.
Fairness ==
  /\ WF_vars(HandleRequestStart)
  /\ WF_vars(HsProcessLine)
  /\ WF_vars(HsFlushLine)
  /\ WF_vars(HsWriteDone)
  /\ WF_vars(HsClose)
  /\ WF_vars(HsCatch)
  /\ WF_vars(HsCatchWriteDone)
  /\ WF_vars(HsCatchClose)
  /\ WF_vars(HsRejectionHandler)
  /\ WF_vars(TimerFires)
  /\ WF_vars(TimerWriteDone)
  /\ WF_vars(TimerClose)

FairSpec == Init /\ [][Next]_vars /\ Fairness

RetrySpecInit == StreamIdle /\ RetryInit /\ NormIdle /\ SessIdle /\ GateIdle /\ CacheIdle /\ V1Idle /\ FileIdle /\ PayloadIdle /\ PartIdle /\ EquivIdle

RetryNext ==
  \/ \E o \in Outcomes : RetryAttempt(o)
  \/ RetryWake

RetrySpec == RetrySpecInit /\ [][RetryNext]_vars

NormSpecInit == StreamIdle /\ RetryIdle /\ NormInit /\ SessIdle /\ GateIdle /\ CacheIdle /\ V1Idle /\ FileIdle /\ PayloadIdle /\ PartIdle /\ EquivIdle

NormNext == Normalize

NormSpec == NormSpecInit /\ [][NormNext]_vars

----------------------------------------------------------------------------
(* Claims about the streaming session *)

Range(q) == { q[k] : k \in 1..Len(q) }

\* C1: in every interleaving of the timeout callback with handleStream the
\* sink accepts the terminal "data: [DONE]" at most once, and once the sink
\* is closed it has accepted it exactly once and was closed exactly once.
C1_ExactlyOnceTerminal ==
  /\ doneWrites <= 1
  /\ closes <= 1
  /\ sinkClosed => (doneWrites = 1 /\ closes = 1)

\* C2: a validated stream=true request always leads to a sink that holds
\* "data: [DONE]" and is closed, and the sink is never closed without the
\* sentinel before.
C2_AlwaysTerminated ==
  /\ (ValidStreamRequest(request) /\ reqPc = "start")
        ~> (sinkClosed /\ DoneFrame \in Range(sink))
  /\ [](sinkClosed => DoneFrame \in Range(sink))

\* the frames the session makes up itself
SessionFrames ==
  {TimeoutFrame, DoneFrame} \cup { ErrorFrameOf(m) : m \in Messages \cup {WriterClosedMessage} }

\* C3: when the timer expires on a silent upstream the sink starts with the
\* one timeout frame, and no frame made from upstream data follows it.
C3_NothingAfterTimeout ==
  firedSilent =>
    /\ sink # <<>> => Head(sink) = TimeoutFrame
    /\ \A j \in 2..Len(sink) : sink[j] \in SessionFrames \ {TimeoutFrame}

\* handleStream saw end-of-stream and finished, no timer expiry, no read error
NaturalEnd ==
  /\ hsPc = "end"
  /\ timer = "cleared"
  /\ \A k \in 1..Len(sink) : ~IsErrorFrame(sink[k])
  /\ TimeoutFrame \notin Range(sink)

\* c(k) with the prefix c(k-1) removed
Increment(cs, k) ==
  IF k = 1 THEN cs[1] ELSE SubSeq(cs[k], Len(cs[k - 1]) + 1, Len(cs[k]))

IncrementFrames(cs) == [k \in 1..Len(cs) |-> <<DataPrefix>> \o Increment(cs, k)]

RECURSIVE Concat(_)
Concat(frames) ==
  IF frames = <<>> THEN <<>> ELSE Tail(Head(frames)) \o Concat(Tail(frames))

\* every content is longer than the one before
ProperlyExtending(cs) == \A k \in 2..Len(cs) : Len(cs[k]) > Len(cs[k - 1])

\* C4 as stated: after cumulative contents, "data: [DONE]" and end-of-stream
\* the sink holds the n increment frames and then [DONE].
C4_IncrementsThenDone ==
  \A cs \in CumulativeLists :
    (text = CumulativeBody(cs) /\ NaturalEnd) =>
      sink = IncrementFrames(cs) \o <<DoneFrame>>

\* C4 amended: after properly extending cumulative contents, "data: [DONE]"
\* and end-of-stream the sink holds the n increment frames, then the
\* forwarded upstream [DONE] line, then the session's own [DONE]; the
\* emitted contents concatenate to the last cumulative content.
C4_IncrementsThenTwoDone ==
  \A cs \in CumulativeLists :
    (text = CumulativeBody(cs) /\ ProperlyExtending(cs) /\ NaturalEnd) =>
      /\ sink = IncrementFrames(cs) \o <<DoneFrame, DoneFrame>>
      /\ Concat(SubSeq(sink, 1, Len(cs))) = cs[Len(cs)]

C4_Witness ==
  /\ text = CumulativeBody(<< <<"a">>, <<"a", "b">>, <<"a", "b", "c">> >>)
  /\ NaturalEnd
  /\ sinkClosed
  /\ Len(sink) = 5

\* the payload of a data line is not JSON
Unparseable(line) ==
  /\ IsDataLine(line)
  /\ \/ Len(line) = 1
     \/ \E k \in 2..Len(line) : line[k] \in {BrokenPayload, DonePayload}

\* C7: a data line whose payload is not JSON is written as it is, the
\* session goes on with the next line or the next read, and previousContent,
\* the buffer and the lines still to process are what they would be without it.
C7_MalformedPassthrough ==
  [][ ( /\ hsPc \in {"line", "flush"}
        /\ Unparseable(Head(lines))
        /\ ~sinkClosed
        /\ (hsPc' # hsPc \/ lines' # lines) )
      => ( /\ sink' = Append(sink, Head(lines))
           /\ previousContent' = previousContent
           /\ buffer' = buffer
           /\ lines' = Tail(lines)
           /\ hsPc' \in {"line", "read", "flush", "sentinel"}
           /\ ~sinkClosed' ) ]_vars

C7_Witness ==
  /\ Len(sink) >= 3
  /\ sink[1] = <<DataPrefix, "a">>
  /\ sink[2] = <<DataPrefix, BrokenPayload, "a">>
  /\ sink[3] = <<DataPrefix, "b">>
  /\ previousContent = <<"a">>

----------------------------------------------------------------------------
(* Claims about the Delta Normalizers *)

\* C5: when current = previous followed by s, both normalizers return s.
C5_PrefixIncrement ==
  nPc = "done" =>
    \A s \in Strings : nCur = nPrev \o s => (nMain = s /\ nV1 = s)

C5_Witness ==
  /\ nPc = "done"
  /\ nPrev = <<"a">>
  /\ nCur = <<"a", "b">>
  /\ nMain = <<"b">>
  /\ nV1 = <<"b">>

----------------------------------------------------------------------------
(* Claims about fetchWithRetry *)

Is2xx(o) == o.kind = "response" /\ o.status \in 200..299

\* a transport error, a 5xx response or an HTML error page
RetryableFailure(o) ==
  \/ o.kind = "exception"
  \/ o.kind = "response" /\ ~Is2xx(o) /\ (o.status >= 500 \/ o.html)

\* any other non-2xx response
TerminalFailure(o) ==
  o.kind = "response" /\ ~Is2xx(o) /\ o.status < 500 /\ ~o.html

Plain(status) ==
  [kind |-> "response", status |-> status, html |-> FALSE, body |-> BODY_LIMIT]

C9_TerminalNoRetry ==
  \A k \in 1..Len(rOutcomes) :
    TerminalFailure(rOutcomes[k]) =>
      /\ k = Len(rOutcomes)
      /\ Len(rSleeps) = k - 1
      /\ rPc = "thrown"

C9_Witness ==
  /\ rRetries = 3
  /\ rOutcomes = <<Plain(404)>>
  /\ rPc = "thrown"
  /\ rSleeps = <<>>

\* C10 as stated: a response with status >= 500, or with an HTML content type
\* whatever its status, on an attempt that is not the last is not handed to
\* the caller and another attempt follows.
C10_HtmlAlwaysRetried ==
  \A k \in 1..Len(rOutcomes) :
    ( /\ rOutcomes[k].kind = "response"
      /\ (rOutcomes[k].status >= 500 \/ rOutcomes[k].html)
      /\ k < rRetries )
    => (k < Len(rOutcomes) \/ rPc \in {"sleep", "attempt"})

\* C10 amended: a non-2xx response with status >= 500 or with an HTML content
\* type, on an attempt that is not the last, is not handed to the caller and
\* another attempt follows.
C10_FailedHtmlRetried ==
  \A k \in 1..Len(rOutcomes) :
    ( /\ rOutcomes[k].kind = "response"
      /\ ~Is2xx(rOutcomes[k])
      /\ (rOutcomes[k].status >= 500 \/ rOutcomes[k].html)
      /\ k < rRetries )
    => (k < Len(rOutcomes) \/ rPc \in {"sleep", "attempt"})

C10_Witness ==
  /\ Len(rOutcomes) = 2
  /\ rOutcomes[1] = [kind |-> "response", status |-> 404, html |-> TRUE,
                      body |-> BODY_LIMIT]
  /\ rSleeps = <<1000>>

\* the last attempt of an exhausted budget
LastOutcome == rOutcomes[Len(rOutcomes)]

Exhausted == rPc = "thrown" /\ Len(rOutcomes) = rRetries

\* C11 as stated: when the final attempt still failed (5xx, HTML page or
\* transport exception) the raised error carries the last failure's status,
\* content type, body cut to at most 1000 characters, headers, and the number
\* of attempts made.
C11_DiagnosticsAlways ==
  (Exhausted /\ RetryableFailure(LastOutcome)) =>
    /\ rError.lastError.kind = "retryable"
    /\ rError.lastError.status = LastOutcome.status
    /\ rError.lastError.contentType = LastOutcome.html
    /\ rError.lastError.responseText <= 1000
    /\ rError.lastError.headers = [contentType |-> LastOutcome.html]
    /\ rError.retries = Len(rOutcomes)

----------------------------------------------------------------------------
(* Claims about the frame buffer and about concurrent sessions *)

SessSpecInit == StreamIdle /\ RetryIdle /\ NormIdle /\ SessInit /\ GateIdle /\ CacheIdle /\ V1Idle /\ FileIdle /\ PayloadIdle /\ PartIdle /\ EquivIdle

SessNext ==
  \/ \E s \in Sessions : \E n \in 1..Len(session[s].upstream) : SessReadChunk(s, n)
  \/ \E s \in Sessions : SessProcessLine(s)
  \/ \E s \in Sessions : SessReadDone(s)
  \/ \E s \in Sessions : SessFlushLine(s)
  \/ \E s \in Sessions : SessWriteDone(s)

SessSpec == SessSpecInit /\ [][SessNext]_vars

\* the lines handed to processLine when the whole body is one chunk, the
\* decoder holding `pending` when the chunk arrives
OneChunkLines(pending, bytes) == DataLines(Split(DecodeText(pending, bytes)))

\* C12: whatever the chunks a body arrives in, the lines handed to processLine
\* (those of the read loop, then the one recovered at the end of the stream)
\* are, in order, the lines handed to it when the body arrives as one chunk.
C12_ChunkInvariance ==
  \A s \in Sessions :
    session[s].pc = "end" =>
      session[s].fed = OneChunkLines(session[s].startPending, session[s].bytes)

----------------------------------------------------------------------------
(* Claims about the order and the form of the frames *)

\* the frames processLine writes for the data lines of a body taken in the
\* order of their arrival, previousContent following the lines
RECURSIVE DerivedFrames(_, _)
DerivedFrames(dataLines, previous) ==
  IF dataLines = <<>> THEN <<>>
  ELSE ProcessLineFrames(Head(dataLines), previous)
         \o DerivedFrames(Tail(dataLines),
                          KeepResult(ProcessLineResult(Head(dataLines), previous), previous))

IsSynthetic(frame) == frame = TimeoutFrame \/ IsErrorFrame(frame)

\* written is, once the synthetic frames and the session's own sentinels are
\* taken out, the beginning of derived: same frames, same order
RECURSIVE InArrivalOrder(_, _)
InArrivalOrder(written, derived) ==
  IF written = <<>> THEN TRUE
  ELSE IF IsSynthetic(Head(written)) THEN InArrivalOrder(Tail(written), derived)
  ELSE \/ /\ derived # <<>>
          /\ Head(written) = Head(derived)
          /\ InArrivalOrder(Tail(written), Tail(derived))
       \/ /\ Head(written) = DoneFrame
          /\ InArrivalOrder(Tail(written), derived)

\* C13: the frames derived from the upstream's data lines reach the sink in
\* the order in which the lines arrived: the frame of an earlier line is
\* written before the frame of a later line, in every execution.
C13_ArrivalOrder ==
  InArrivalOrder(sink, DerivedFrames(SelectSeq(Split(text), IsDataLine), <<>>))

\* three lines have been turned into three frames, and the session has ended
C13_Witness ==
  /\ text = CumulativeBody(<< <<"a">>, <<"a", "b">>, <<"a", "b", "c">> >>)
  /\ hsPc = "end"
  /\ Len(sink) >= 4
  /\ SubSeq(sink, 1, 4) =
       << <<DataPrefix, "a">>, <<DataPrefix, "b">>, <<DataPrefix, "c">>, DoneFrame >>

\* JSON.parse accepts the payload: an object the session serialized itself,
\* or the error object when the pasted message leaves its string literal intact
IsValidJson(payload) ==
  \/ payload = <<RolePayload>>
  \/ payload = <<"{timeout}">>
  \/ Len(payload) >= 1 /\ \A k \in 1..Len(payload) : payload[k] \in ContentChars
  \/ /\ Len(payload) >= 2
     /\ payload[1] = ErrorOpen
     /\ payload[Len(payload)] = ErrorClose
     /\ \A k \in 2..(Len(payload) - 1) : payload[k] \notin {Quote, ErrorOpen, ErrorClose}

WellFormed(frame) ==
  \/ frame = DoneFrame
  \/ Len(frame) >= 2 /\ frame[1] = DataPrefix /\ IsValidJson(Slice(frame, 1))

\* an unparseable line of the upstream, written as it came
IsPassthrough(frame) ==
  \E k \in 1..Len(Split(text)) : Split(text)[k] = frame /\ Unparseable(frame)

\* C14: every frame the session produces itself (content frames, forwarded
\* payloads, the error and timeout frames, the sentinel), that is every frame
\* but the verbatim passthrough of an unparseable line, is "data: " followed by
\* valid JSON, or is exactly "data: [DONE]", whatever the upstream sends and
\* whatever the message of the error.
C14_FramesWellFormed ==
  \A k \in 1..Len(sink) : IsPassthrough(sink[k]) \/ WellFormed(sink[k])

----------------------------------------------------------------------------
(* Claims about authorization *)

GateSpecInit == StreamIdle /\ RetryIdle /\ NormIdle /\ SessIdle /\ GateInit /\ CacheIdle /\ V1Idle /\ FileIdle /\ PayloadIdle /\ PartIdle /\ EquivIdle

GateNext ==
  \/ GateChecked
  \/ GateV1
  \/ \E ok \in BOOLEAN : GateUploadSettles(ok)
  \/ \E resolves \in BOOLEAN : \E status \in Statuses : GateFetchSettles(resolves, status)

GateSpec == GateSpecInit /\ [][GateNext]_vars

\* a GET of the models path, or a POST to the completions path
Guarded(r) ==
  \/ r.method = "GET" /\ r.path = "models"
  \/ r.method = "POST" /\ r.path = "completions"

\* C15: for a request whose Authorization header is missing or does not start
\* with "Bearer " no upstream call is ever made (model list, chat completion,
\* image upload), and such a request to the models path, or such a POST to the
\* completions path, is answered with 401.
C15_NoCallWithoutBearer ==
  ~HasBearer(gRequest) =>
    /\ gCalls = <<>>
    /\ (gPc = "responded" /\ Guarded(gRequest)) => gStatus = 401

----------------------------------------------------------------------------
(* Claims about the non-streaming path *)

\* C16: on the non-streaming path the POST handler returns the upstream's
\* body with the upstream's HTTP status, whatever the upstream answered, so
\* that an upstream 4xx or 5xx is seen by the client as that status.
C16_UpstreamStatusReturned ==
  response = "json" => respStatus = upStatus

----------------------------------------------------------------------------
(* Claims about the model-list cache *)

CacheSpecInit == StreamIdle /\ RetryIdle /\ NormIdle /\ SessIdle /\ GateIdle /\ CacheInit /\ V1Idle /\ FileIdle /\ PayloadIdle /\ PartIdle /\ EquivIdle

CacheNext ==
  \/ \E d \in ClockSteps : Tick(d)
  \/ \E k \in Slots : ModelsRequest(k)
  \/ \E k \in Slots : \E body \in ModelBodies : ModelsFetched(k, body)
  \/ \E k \in Slots : ModelsFailed(k)

CacheSpec == CacheSpecInit /\ [][CacheNext]_vars

\* request k arrives in this step
Arrives(k) == slot[k].pc \in {"idle", "done"} /\ slot'[k] # slot[k]

\* request k is answered in this step from the cache, without an upstream call
AnsweredFromCache(k) ==
  /\ slot'[k].pc = "done"
  /\ slot'[k].calls = 0
  /\ slot'[k].status = 200
  /\ slot'[k].body = cachedModels

\* the fetcher is invoked for request k in this step
FetcherInvoked(k) == slot'[k].pc = "fetch" /\ slot'[k].calls = 1

\* the call of the fetcher made for request k ends in this step
Succeeds(k) == slot[k].pc = "fetch" /\ slot'[k].pc = "done" /\ slot'[k].status = 200
Fails(k) == slot[k].pc = "fetch" /\ slot'[k].pc = "done" /\ slot'[k].status # 200

\* what follows a miss: on success the body and the refresh timestamp are
\* stored, on failure the cache is left as it is and the answer is 500
AfterMiss(k) ==
  /\ Succeeds(k) =>
       /\ cachedModels' = slot'[k].body
       /\ cachedModelsTimestamp' = slot[k].now
  /\ Fails(k) =>
       /\ slot'[k].status = 500
       /\ UNCHANGED <<cachedModels, cachedModelsTimestamp>>

\* C17 as stated: an authorised GET at time t is answered from the cache,
\* without an upstream call, if and only if a cached value exists and t minus
\* its refresh timestamp is less than one hour; otherwise the fetcher is
\* invoked; on success body and timestamp are stored, on failure the cache is
\* unchanged and the answer is 500.
C17_CacheIffStored ==
  [][\A k \in Slots :
       /\ Arrives(k) =>
            /\ AnsweredFromCache(k) <=>
                 (cachedModels # Null /\ clock - cachedModelsTimestamp < 3600000)
            /\ ~AnsweredFromCache(k) => FetcherInvoked(k)
       /\ AfterMiss(k)]_vars

\* C17, amended: the same with "a cached value exists" read as "a non-empty
\* cached value exists": a stored empty body is never served from the cache.
C17_CacheIffNonEmpty ==
  [][\A k \in Slots :
       /\ Arrives(k) =>
            /\ AnsweredFromCache(k) <=>
                 (cachedModels \notin {Null, ""} /\ clock - cachedModelsTimestamp < 3600000)
            /\ ~AnsweredFromCache(k) => FetcherInvoked(k)
       /\ AfterMiss(k)]_vars

\* a request has been answered from a cache filled one millisecond less than
\* an hour before, while another request's fetch had failed
C17_Witness ==
  \E k \in Slots :
    /\ slot[k].pc = "done" /\ slot[k].calls = 0
    /\ slot[k].now - cachedModelsTimestamp = CACHE_TTL - 1
    /\ slot[3 - k].pc = "done" /\ slot[3 - k].status = 500

----------------------------------------------------------------------------
(* Claims about session isolation *)

\* the frames of a session that runs alone on the bytes: nothing is pending
\* in the decoder when it starts, and nothing else decodes in between
AloneFrames(bytes) ==
  DerivedFrames(OneChunkLines(<<>>, bytes), <<>>) \o <<DoneFrame>>

\* C18: when two streaming sessions run concurrently, their reads interleaved
\* in any order, the frames written to the sink of each are those the session
\* writes when it runs alone on the same upstream bytes.
C18_SessionIsolation ==
  \A s \in Sessions :
    session[s].pc = "end" => session[s].sink = AloneFrames(session[s].bytes)

----------------------------------------------------------------------------
(* Claims about previousContent *)

V1SpecInit == StreamIdle /\ RetryIdle /\ NormIdle /\ SessIdle /\ GateIdle /\ CacheIdle /\ V1Init /\ FileIdle /\ PayloadIdle /\ PartIdle /\ EquivIdle

V1Next ==
  \/ \E n \in 1..Len(v1Upstream) : V1ReadChunk(n)
  \/ V1ReadDone
  \/ V1ReadError

V1Spec == V1SpecInit /\ [][V1Next]_vars

\* C19: after the session has processed a data line whose payload carries a
\* non-empty delta content, previousContent is that line's whole cumulative
\* content, whether a frame was emitted for the line or not (the content
\* repeating or shrinking included). Stated here for the session of v1.ts.
C19_PreviousIsLastContent ==
  \A k \in 1..Len(v1Log) : v1Log[k].previous = v1Log[k].content

----------------------------------------------------------------------------
(* Claims about the lifecycle flags of v1-file.ts *)

FileSpecInit == StreamIdle /\ RetryIdle /\ NormIdle /\ SessIdle /\ GateIdle /\ CacheIdle /\ V1Idle /\ FileInit /\ PayloadIdle /\ PartIdle /\ EquivIdle

FileNext ==
  \/ \E n \in 1..Len(fUpstream) : FileReadChunk(n)
  \/ FileProcessLine
  \/ FileFlushLine
  \/ FileReadDone
  \/ FileWriteDone
  \/ \E message \in Messages : FileReadError(message)
  \/ FileCatchWriteDone
  \/ FileFinally
  \/ FileTimerFires
  \/ FileTimerWriteDone
  \/ FileTimerClose

FileSpec == FileSpecInit /\ [][FileNext]_vars

\* a step of handleStream; a step of the timeout callback and its chain
FileHsStep == <<fPc, fLines, fBuffer, fUpstream>>' # <<fPc, fLines, fBuffer, fUpstream>>
FileTimerStep == fTimer' # fTimer /\ ~FileHsStep

\* handleStream has set isCompleted, or has entered its catch block
HsTerminal == isCompleted \/ fPc \in {"catchSentinel", "finally", "end"}

\* C20: in every interleaving, once the timeout callback has set
\* isStreamActive to false handleStream writes no data frame, no error frame,
\* no "[DONE]" and does not close the sink; once handleStream has set
\* isCompleted to true or has entered its error path the timeout callback
\* writes nothing; "[DONE]" is written at most once and the sink is closed at
\* most once.
C20_TerminalClaimedOnce ==
  [][/\ (~isStreamActive /\ FileHsStep) => (fSink' = fSink /\ fCloses' = fCloses)
     /\ (HsTerminal /\ FileTimerStep) => fSink' = fSink
     /\ fDoneWrites' <= 1
     /\ fCloses' <= 1]_vars

----------------------------------------------------------------------------
(* Claims about the race of the timer with handleStream in main.ts *)

\* the timeout callback has begun its terminal sequence
TimerBegun == timer \in {"sentinel", "close", "done"}

\* a step of handleStream or of its rejection handler
HsStep == <<hsPc, lines, buffer, upstream>>' # <<hsPc, lines, buffer, upstream>>

\* a step in which a write or a close is attempted on a closed sink and refused
RefusedStep ==
  /\ sinkClosed
  /\ \/ hsPc # "read" /\ hsPc' # hsPc /\ hsPc' \in {"catch", "rejected"}
     \/ hsPc = "rejected" /\ hsPc' = "end"
     \/ timer \in {"armed", "sentinel", "close"} /\ timer' = "done"

\* C21: when the timer path races with the natural-completion or error path,
\* the loser is suppressed: once the timeout callback has begun its terminal
\* sequence handleStream issues no write and no close, and no write or close
\* is ever attempted on a closed sink.
C21_LoserSuppressed ==
  [][/\ (TimerBegun /\ HsStep) => (sink' = sink /\ closes' = closes)
     /\ ~RefusedStep]_vars


\* C25: once the timeout callback has run while handleStream waits in
\* reader.read(), handleStream eventually returns, whatever the upstream does.
C25_TimerReleasesRead == (TimerBegun /\ hsPc = "read") ~> (hsPc = "end")

----------------------------------------------------------------------------
(* Claims about the upstream call of a chat completion *)

IsChatCall(c) == c = "chat"

\* the chat-completion call of main.ts or v1-file.ts raised a transport error
\* and the client has its answer
ChatFaultSurfaced ==
  /\ gServer \in {"main.ts", "v1-file.ts"}
  /\ gPc = "responded"
  /\ gStatus = 500
  /\ gCalls # <<>>
  /\ gCalls[Len(gCalls)] = "chat"

\* C22: a retryable fault of the chat-completion call is surfaced to the
\* client only after the call has been attempted as often as the attempt
\* budget of the Backoff Fetcher allows.
C22_ChatFaultRetried ==
  ChatFaultSurfaced => Len(SelectSeq(gCalls, IsChatCall)) = MAX_RETRIES

----------------------------------------------------------------------------
(* Claims about the error path of handleStream in main.ts *)

\* the last two frames of the sink are the error frame of the exception that
\* was caught and the terminal [DONE], and the sink is closed
ErrorSequenceDone ==
  /\ Len(sink) >= 2
  /\ sink[Len(sink) - 1] = ErrorFrameOf(hsError)
  /\ sink[Len(sink)] = DoneFrame
  /\ sinkClosed

\* handleStream has ended after a read raised while the timer was armed
ReadRaisedActive == hsPc = "end" /\ hsError \in Messages /\ timer = "cleared"

\* handleStream has ended after a write or a close on the sink raised
WriteRaised == hsPc = "end" /\ hsError = WriterClosedMessage

\* C23: after an upstream read raised in an ACTIVE session, and after a sink
\* write raised, the session has written one error frame, then the terminal
\* [DONE], and has closed the sink.
C23_ErrorSequence == (ReadRaisedActive \/ WriteRaised) => ErrorSequenceDone

----------------------------------------------------------------------------
(* Claims about an upstream "data: [DONE]" line *)

\* the read loop is about to process "data: [DONE]" received from the upstream
UpstreamDoneLine == hsPc = "line" /\ lines # <<>> /\ Head(lines) = DoneFrame

\* the upstream's [DONE] was forwarded and the session has not written its own
DoneForwarded == doneWrites = 0 /\ \E k \in 1..Len(sink) : sink[k] = DoneFrame

\* C24: an upstream "data: [DONE]" line seen before the end of the stream is
\* forwarded as an ordinary frame and is no lifecycle transition: the timer,
\* the sink and the session's count of terminal writes are left alone and
\* the read loop goes on. The session's own [DONE] is still written when the
\* stream ends.
C24_UpstreamDoneForwarded ==
  [][/\ (UpstreamDoneLine /\ Accepts /\ lines' # lines) =>
          /\ sink' = Append(sink, DoneFrame)
          /\ hsPc' = IF lines' = <<>> THEN "read" ELSE "line"
          /\ UNCHANGED <<timer, doneWrites, closes, sinkClosed, previousContent>>
     /\ (DoneForwarded /\ hsPc = "sentinel" /\ Accepts /\ hsPc' # hsPc) =>
          /\ sink' = Append(sink, DoneFrame)
          /\ doneWrites' = 1
          /\ hsPc' = "close"]_vars

\* the stream ended by itself; its frames hold the upstream's [DONE], a
\* content frame after it, and the session's own [DONE] at the end
C24_Witness ==
  /\ hsPc = "end"
  /\ hsError = <<>>
  /\ timer = "cleared"
  /\ doneWrites = 1
  /\ closes = 1
  /\ \E i, j \in 1..Len(sink) :
       /\ i < j /\ j < Len(sink)
       /\ sink[i] = DoneFrame
       /\ HasContent(sink[j])
       /\ sink[Len(sink)] = DoneFrame

----------------------------------------------------------------------------
(* Claims about clearTimeout *)

\* handleStream has seen the end of the stream, or has caught an exception
TransitionBegun ==
  hsPc \in {"flush", "sentinel", "close", "catch", "catchSentinel",
            "catchClose", "rejected", "end"}

\* the number of timeout frames in a sequence of frames
RECURSIVE TimeoutFrames(_)
TimeoutFrames(frames) ==
  IF frames = <<>> THEN 0
  ELSE (IF Head(frames) = TimeoutFrame THEN 1 ELSE 0) + TimeoutFrames(Tail(frames))

\* C26: once handleStream has seen the end of the stream or has caught an
\* exception, and once the sink is closed, the timeout callback does not
\* start and no timeout frame is written.
C26_TimerDisarmed ==
  [][(TransitionBegun \/ sinkClosed) =>
       /\ timer = "armed" => timer' \in {"armed", "cleared"}
       /\ TimeoutFrames(sink') = TimeoutFrames(sink)]_vars

\* the stream ended by itself and the sink was closed with the timer cleared
C26_Witness ==
  /\ ValidStreamRequest(request)
  /\ hsPc = "end"
  /\ timer = "cleared"
  /\ sinkClosed
  /\ TimeoutFrames(sink) = 0

----------------------------------------------------------------------------
(* Claims about the payload of a content frame *)

PayloadSpecInit == StreamIdle /\ RetryIdle /\ NormIdle /\ SessIdle /\ GateIdle /\ CacheIdle /\ V1Idle /\ FileIdle /\ PayloadInit /\ PartIdle /\ EquivIdle

PayloadNext ==
  \/ MainContentLine
  \/ V1ContentLine

PayloadSpec == PayloadSpecInit /\ [][PayloadNext]_vars

\* C27: the payload of an emitted content frame is the upstream payload with
\* the content of the first choice's delta replaced, and nothing else changed.
C27_OnlyContentReplaced ==
  (pPc = "done" /\ pOut # <<>>) =>
     pOut[1] = [pData EXCEPT !.choices[1].delta.content =
                               pOut[1].choices[1].delta.content]

----------------------------------------------------------------------------
(* Claims about unhandled rejections *)

PartSpecInit == StreamIdle /\ RetryIdle /\ NormIdle /\ SessIdle /\ GateIdle /\ CacheIdle /\ V1Idle /\ FileIdle /\ PayloadIdle /\ PartInit /\ EquivIdle

PartNext ==
  \/ PartReadChunk
  \/ PartProcessLine
  \/ PartReadDone
  \/ PartFlushLine
  \/ PartWriteDone
  \/ PartClose
  \/ PartReadError
  \/ PartCatch
  \/ PartCatchWriteDone
  \/ PartCatchClose
  \/ PartRejectionHandler
  \/ PartTimerFires

PartSpec == PartSpecInit /\ [][PartNext]_vars

\* C28: every exception raised by a read, a write or a close in handleStream,
\* in its rejection handler or in the timeout callback is caught: no promise
\* is rejected with no handler attached.
C28_NoUnhandledRejection == uUnhandled = {}

----------------------------------------------------------------------------
(* Claims about the two copies of fetchWithRetry *)

EquivSpecInit == StreamIdle /\ RetryIdle /\ NormIdle /\ SessIdle /\ GateIdle /\ CacheIdle /\ V1Idle /\ FileIdle /\ PayloadIdle /\ PartIdle /\ EquivInit

EquivNext ==
  \/ MainFetchAttempt
  \/ PartFetchAttempt

EquivSpec == EquivSpecInit /\ [][EquivNext]_vars

\* C29: on the same outcomes of the upstream, fetchWithRetry of part_000 and
\* fetchWithRetry of main.ts make the same number of attempts and end the
\* same way: both return a response of the same status, or both raise.
C29_SameFetcher ==
  (eMain.pc \in {"returned", "thrown"} /\ ePart.pc \in {"returned", "thrown"})
     => eMain = ePart

----------------------------------------------------------------------------
(* Claims about concurrent refreshes of the model-list cache *)

\* C30: whatever the interleaving of the requests that refresh the cache,
\* the stored timestamp never decreases.
C30_TimestampMonotonic == [][cachedModelsTimestamp' >= cachedModelsTimestamp]_vars

====
